---- MODULE Spec2Model ----
(***************************************************************************)
(* ApexLive: replay clock, live-head controller, fetch schedulers, the     *)
(* OpenF1 client (fetchAPI), the LiveCircuit buffers and the                *)
(* TelemetryDashboard series, as state machines, and the two interpolators *)
(* (getInterpolatedData, LiveCircuit.animate) as operators.  All times are *)
(* integers in milliseconds.                                               *)
(* A JavaScript `Date | null` is an integer, NoTime standing for null.     *)
(***************************************************************************)
EXTENDS Integers, Naturals, Sequences, FiniteSets, TLC

VARIABLES
  \* ---- App (unnamed/part_006) ----
  now,                \* wall clock, what `new Date()` / Date.now() returns
  session,            \* useState session: NoSession or a key of Sessions
  initPc,             \* position of the async initSession of `session`
  isPlaying,
  currentReplayTime,
  replayTimeRef,
  sessionStartTime,
  sessionEndTime,
  isSessionLive,
  isAtLiveHead,
  playbackSpeed,
  loopCounterRef,
  isFetchingRef,
  tickDue,            \* wall time at which setInterval(tick, 100) fires next
  appFetches,         \* fetchDataForTime / handleSeekCommit cycles in flight
  drivers,            \* the driver list: the request window it was last written for
  weather,            \* useState weather: the request time it was last written for, NoTime: null
  requestedAt,        \* history: the time the playback loop last requested, NoTime: not since the clock was set
  used,               \* how many selections, commands, idle waits and how much wall time were taken
  seekHold,           \* history: target of the last seek not yet followed by play/goLive
  lastEvent,          \* history: the handler or callback that ran last
  \* ---- services/openf1Service (unnamed/part_000) ----
  lastRequestTime,    \* the module's global throttle state
  apiCalls,           \* the fetchAPI calls made: call id -> its position and arguments
  requestLog,         \* history: the wall times of the last two outbound fetch() calls
  \* ---- App: the view, and components/LiveCircuit ----
  currentView,        \* useState currentView: "dashboard" or "circuit"
  mapTransform,       \* NoSession (null) or the session whose map was generated
  mapFor,             \* the session whose generateMap is pending, or NoSession
  activeDriverId,     \* the followed driver, NoDriver for null
  locationBuffer,     \* locationBuffer.current: driver -> sequence of sample dates
  lastFetchTime,      \* lastFetchTime.current (virtual time)
  locFetches,         \* getLocationsAtTime requests of fetchBatch in flight
  locDue,             \* wall time at which setInterval(fetchBatch, 1000) fires next
  telemetryBuffer,    \* telemetryBuffer.current: sequence of sample dates
  lastTelemetryFetchTime,
  telFetches,         \* getCarData requests of fetchTelemetry in flight
  telDue,             \* wall time at which setInterval(fetchTelemetry, 250) fires next
  frame,              \* what the last animation frame found: driver -> bracket index
  \* ---- components/TelemetryDashboard ----
  selectedDriverId,   \* useState selectedDriverId, NoDriver for null
  telemetry,          \* useState telemetry: the series getCarData delivered last
  displayPacket,      \* useState displayPacket, NoPacket for null
  tdFetches,          \* getCarData requests of TelemetryDashboard in flight
  tdDue,              \* wall time at which setInterval(fetchTelemetry, 250) fires next
  \* ---- App: the race-control poll ("Messages & Track Status" effect) ----
  msgDue,             \* wall time at which setInterval(fetchMsgs, 5000) fires next
  msgFetches,         \* getRaceControlMessages requests of fetchMsgs in flight
  messagesAt,         \* the virtual time the message feed was last filtered by, NoTime: never
  playingSince,       \* history: wall time since which a loaded session plays, NoTime: it does not
  polledAt,           \* history: wall time at which fetchMsgs ran last, NoTime: never
  \* ---- the interpolators, called on their own ----
  argData,            \* getInterpolatedData's data, animate's tPoints
  argPoints,          \* animate's points: one driver's location buffer
  argTime,            \* the target time of the calls
  argRefs,            \* animate's referencePoints.current
  argDriver,          \* animate's activeDriverId: the driver argPoints belongs to, or NoDriver
  returned            \* what the calls returned, and what they returned before

appVars == << session, initPc, isPlaying, currentReplayTime, replayTimeRef,
              sessionStartTime, sessionEndTime, isSessionLive, isAtLiveHead,
              playbackSpeed, loopCounterRef, isFetchingRef, tickDue, appFetches,
              drivers, weather, requestedAt, used, seekHold, lastEvent >>

apiVars == << lastRequestTime, apiCalls, requestLog >>

(* the state of a LiveCircuit instance *)
lcState == << mapTransform, mapFor, activeDriverId, locationBuffer, lastFetchTime,
              locFetches, locDue, telemetryBuffer, lastTelemetryFetchTime,
              telFetches, telDue, frame >>

lcVars == << currentView, lcState >>

(* the state of a TelemetryDashboard instance *)
tdVars == << selectedDriverId, telemetry, displayPacket, tdFetches, tdDue >>

(* the state of the race-control poll *)
msgVars == << msgDue, msgFetches, messagesAt, playingSince, polledAt >>

(* the arguments and results of the interpolators called on their own *)
fnVars == << argData, argPoints, argTime, argRefs, argDriver, returned >>

(* what the handlers of the replay clock do not touch *)
notApp == << apiVars, lcVars, tdVars, msgVars, fnVars >>

vars == << now, appVars, apiVars, lcVars, tdVars, msgVars, fnVars >>

----------------------------------------------------------------------------
(* Values standing for null *)
NoTime    == -1
NoSession == 0
NoDriver  == 0

(* Program constants *)
PLAYBACK_SPEEDS      == {1, 5, 10, 30}
updateIntervalMs     == 100
LiveHeadThresholdMs  == 60 * 1000
LiveWindowAfterEndMs == 1000 * 60 * 60 * 2
SessionEndGraceMs    == 20 * 60000
NoLapStartOffsetMs   == 5 * 60000
GoLiveLagMs          == 30000
SeekStepMs           == 1000
FetchEveryTicks      == 10

(* Bounds of the model *)
MaxWallMs     == 1200     \* wall-clock horizon of timer-driven runs, after NowBase
MaxIdleJumps  == 1        \* long waits with no timer registered
MaxSelects    == 1        \* session selections
MaxCommands   == 2        \* playback commands (seek, commit, go live, play/pause, rate)
MaxInFlight   == 2        \* request cycles pending at once
MaxFastForward == 5000    \* ticks of one uninterrupted replay run

Abs(x) == IF x < 0 THEN -x ELSE x
Min(S) == CHOOSE x \in S : \A y \in S : x <= y

(***************************************************************************)
(* Input data: the sessions the OpenF1 API lists.  lap1 is the date_start  *)
(* of the earliest lap 1 of the session, NoTime when the API has no lap.   *)
(***************************************************************************)
NowBase == 20000000
Sessions ==
  << [date_start |-> NowBase - 600000, date_end |-> NowBase + 6600000,
      lap1 |-> NowBase - 420000],
     [date_start |-> NowBase - 14700000, date_end |-> NowBase - 7500000,
      lap1 |-> NoTime] >>
SessionKeys == DOMAIN Sessions

SessionStart(k) ==
  IF Sessions[k].lap1 # NoTime THEN Sessions[k].lap1
  ELSE Sessions[k].date_start + NoLapStartOffsetMs
SessionEnd(k) == Sessions[k].date_end + SessionEndGraceMs

----------------------------------------------------------------------------
(* App: the "Check for Live Status" effect.  It runs after every render    *)
(* in which session, currentReplayTime or playbackSpeed changed; wall is   *)
(* the wall clock at that moment.  The result is the three states it sets. *)
LiveStatusEffect(s, t, speed, wall) ==
  IF s = NoSession \/ t = NoTime
  THEN [live |-> isSessionLive, head |-> isAtLiveHead, speed |-> speed]
  ELSE LET isLive == wall >= Sessions[s].date_start
                     /\ wall <= Sessions[s].date_end + LiveWindowAfterEndMs
           atHead == Abs(wall - t) < LiveHeadThresholdMs
       IN [live |-> isLive, head |-> atHead,
           speed |-> IF isLive /\ atHead /\ speed # 1 THEN 1 ELSE speed]

(* App: the playback-loop effect body: setInterval(tick, 100) while playing *)
PlaybackLoopEffect(playing, s, wall) ==
  IF (~playing) \/ s = NoSession THEN NoTime ELSE wall + updateIntervalMs

(* history: an identity for a new request cycle *)
FreeId == Min({ i \in 1..(MaxInFlight + 1) : \A f \in appFetches : f.id # i })

(* App: cleanup of the playback-loop effect: controller.abort() *)
AbortTickCycles(F) ==
  { IF f.kind = "tick" THEN [f EXCEPT !.aborted = TRUE] ELSE f : f \in F }

(* React re-runs the playback-loop effect (cleanup, then body) exactly when *)
(* one of its dependencies isPlaying, session, playbackSpeed changed.      *)
LoopDepsChanged(playing, s, speed) ==
  playing # isPlaying \/ s # session \/ speed # playbackSpeed
TickDueAfter(playing, s, speed, wall) ==
  IF LoopDepsChanged(playing, s, speed)
  THEN PlaybackLoopEffect(playing, s, wall) ELSE tickDue
CyclesAfter(playing, s, speed, F) ==
  IF LoopDepsChanged(playing, s, speed) THEN AbortTickCycles(F) ELSE F

(* history: a seek or a session change supersedes the window of every cycle in flight *)
Supersede(F) == { [f EXCEPT !.superseded = TRUE] : f \in F }

----------------------------------------------------------------------------
(* components/LiveCircuit: what the server can answer, and the effects.     *)
Drivers == { 1, 2 }

LocFetchIntervalMs  == 1000      \* setInterval(fetchBatch, 1000)
LocMinAdvanceMs     == 1000      \* nowMs - lastFetchTime.current < 1000
LocLookbackMs       == 1000      \* fetchStart = nowMs - 1000
LocWindowSeconds    == 4
LocRetentionMs      == 2000      \* cutoff = nowMs - 2000
TelFetchIntervalMs  == 250       \* setInterval(fetchTelemetry, 250)
TelMinAdvanceMs     == 250       \* nowMs - lastTelemetryFetchTime.current < 250
TelLookaheadMs      == 2000      \* new Date(nowMs + 2000)
TelLookbackSeconds  == 3
TelRetentionMs      == 3000      \* cutoff = nowMs - 3000

MaxBatch   == 2                  \* records of one response
LocOffsets == { -LocLookbackMs, 1500 }  \* sample dates of a response, from its nowMs
TelOffsets == { -500, 1500 }

(* The records /location can answer a request made at virtual time nowMs   *)
(* with: dates inside [nowMs - 1000, nowMs + 3000); a record whose         *)
(* driver_number is missing has driver_number NoDriver.                    *)
LocRecords(nowMs) ==
  { [driver_number |-> d, date |-> nowMs + o] : d \in Drivers, o \in LocOffsets }
    \cup { [driver_number |-> NoDriver, date |-> nowMs] }

SeqsUpTo(S, n) == UNION { [1..k -> S] : k \in 0..n }

LocBatches(nowMs) == SeqsUpTo(LocRecords(nowMs), MaxBatch)

(* What getCarData resolves to for a request made at nowMs: the records    *)
(* sorted by date (its own sort), or a rejection when the body holds a     *)
(* null record (its sort comparator reads a.date).                         *)
TelBatches(nowMs) ==
  { [throws |-> FALSE, data |-> << >>],
    [throws |-> FALSE, data |-> << nowMs - 500 >>],
    [throws |-> FALSE, data |-> << nowMs + 1500 >>],
    [throws |-> FALSE, data |-> << nowMs - 500, nowMs + 1500 >>],
    [throws |-> TRUE,  data |-> << >>] }

Rendered(view, s, t) == view = "circuit" /\ s # NoSession /\ t # NoTime

Contains(points, date) == \E i \in DOMAIN points : points[i] = date

(* Array.prototype.sort((a, b) => a.date - b.date): a stable insertion *)
RECURSIVE InsertSorted(_, _)
InsertSorted(sorted, x) ==
  IF sorted = << >> THEN << x >>
  ELSE IF sorted[Len(sorted)] <= x THEN Append(sorted, x)
  ELSE Append(InsertSorted(SubSeq(sorted, 1, Len(sorted) - 1), x), sorted[Len(sorted)])

RECURSIVE SortByDate(_)
SortByDate(points) ==
  IF points = << >> THEN << >>
  ELSE InsertSorted(SortByDate(SubSeq(points, 1, Len(points) - 1)), points[Len(points)])

(* filter(p => p.date > cutoff) *)
Evict(points, cutoff) == SelectSeq(points, LAMBDA date : date > cutoff)

(* fetchBatch, the data.forEach: record i onwards into buffer B.  A record *)
(* without driver_number throws at d.driver_number.toString(); the forEach *)
(* stops there and control goes to the catch.                              *)
RECURSIVE InsertFrom(_, _, _)
InsertFrom(B, batch, i) ==
  IF i > Len(batch) THEN [buffer |-> B, thrown |-> FALSE]
  ELSE LET d == batch[i] IN
    IF d.driver_number = NoDriver THEN [buffer |-> B, thrown |-> TRUE]
    ELSE LET dId == d.driver_number
             B2 == IF Contains(B[dId], d.date) THEN B
                   ELSE [B EXCEPT ![dId] = Append(@, d.date)]
         IN InsertFrom(B2, batch, i + 1)

(* fetchBatch after `await getLocationsAtTime` while mounted: insert, then *)
(* ("Clean Buffer") sort and evict every driver's buffer, all inside try   *)
AfterLocBatch(B, batch, nowMs) ==
  LET r == InsertFrom(B, batch, 1) IN
    IF r.thrown THEN r.buffer
    ELSE [dId \in Drivers |->
            Evict(SortByDate(r.buffer[dId]), nowMs - LocRetentionMs)]

(* fetchTelemetry's data.forEach: merge without duplicates *)
RECURSIVE MergeFrom(_, _, _)
MergeFrom(points, data, i) ==
  IF i > Len(data) THEN points
  ELSE MergeFrom(IF Contains(points, data[i]) THEN points ELSE Append(points, data[i]),
                 data, i + 1)

(* fetchTelemetry after `await getCarData` while mounted *)
AfterTelBatch(points, out, nowMs) ==
  IF out.throws THEN points
  ELSE Evict(SortByDate(MergeFrom(points, out.data, 1)), nowMs - TelRetentionMs)

(* cleanup of a fetch effect: isMounted = false for its pending requests *)
Unmounted(F) == { [f EXCEPT !.isMounted = FALSE] : f \in F }

(* fetchBatch up to its await, with latestProps (s, t) and mapTransform m: *)
(* the requests in flight and lastFetchTime.current afterwards             *)
fetchBatch(s, t, m, F, last) ==
  IF s = NoSession \/ t = NoTime \/ m = NoSession THEN [fetches |-> F, last |-> last]
  ELSE IF t - last < LocMinAdvanceMs THEN [fetches |-> F, last |-> last]
  ELSE [fetches |-> F \cup { [nowMs |-> t, isMounted |-> TRUE] }, last |-> t]

(* fetchTelemetry up to its await, with latestProps (s, t, a) *)
fetchTelemetry(s, t, a, F, last) ==
  IF s = NoSession \/ t = NoTime \/ a = NoDriver THEN [fetches |-> F, last |-> last]
  ELSE IF t - last < TelMinAdvanceMs THEN [fetches |-> F, last |-> last]
  ELSE [fetches |-> F \cup { [nowMs |-> t, driver |-> a, isMounted |-> TRUE] },
        last |-> t]

Mounted(F) == { f \in F : f.isMounted }

(* the model follows at most MaxInFlight pending requests of a channel *)
InFlightBounded(F) == Cardinality(F) <= MaxInFlight

(* The location effect (deps session, mapTransform) runs again at wall     *)
(* time wall: cleanup, setInterval, and the immediate fetchBatch().        *)
LocationEffect(s, t, m, wall) ==
  LET r == fetchBatch(s, t, m, Unmounted(locFetches), lastFetchTime) IN
    /\ InFlightBounded(r.fetches)
    /\ locFetches' = r.fetches
    /\ lastFetchTime' = r.last
    /\ locDue' = wall + LocFetchIntervalMs

(* The telemetry effect (deps activeDriverId, session) runs again: cleanup *)
(* (which empties telemetryBuffer), setInterval, immediate fetchTelemetry()*)
TelemetryEffect(s, t, a, wall) ==
  LET r == fetchTelemetry(s, t, a, Unmounted(telFetches), lastTelemetryFetchTime) IN
    /\ InFlightBounded(r.fetches)
    /\ telFetches' = r.fetches
    /\ lastTelemetryFetchTime' = r.last
    /\ telemetryBuffer' = << >>
    /\ telDue' = wall + TelFetchIntervalMs

NoFrame == [dId \in Drivers |-> 0]
EmptyBuffer == [dId \in Drivers |-> << >>]

(* LiveCircuit is not rendered: no instance, no timer *)
LcAbsent ==
  /\ mapTransform = NoSession
  /\ mapFor = NoSession
  /\ activeDriverId = NoDriver
  /\ locationBuffer = EmptyBuffer
  /\ lastFetchTime = 0
  /\ locFetches = {}
  /\ locDue = NoTime
  /\ telemetryBuffer = << >>
  /\ lastTelemetryFetchTime = 0
  /\ telFetches = {}
  /\ telDue = NoTime
  /\ frame = NoFrame

LcInit == currentView = "dashboard" /\ LcAbsent

(* App stops rendering LiveCircuit: every effect is cleaned up and the     *)
(* instance, with its refs, is gone.                                       *)
LcUnmount ==
  /\ mapTransform' = NoSession
  /\ mapFor' = NoSession
  /\ activeDriverId' = NoDriver
  /\ locationBuffer' = EmptyBuffer
  /\ lastFetchTime' = 0
  /\ locFetches' = {}
  /\ locDue' = NoTime
  /\ telemetryBuffer' = << >>
  /\ lastTelemetryFetchTime' = 0
  /\ telFetches' = {}
  /\ telDue' = NoTime
  /\ frame' = NoFrame

(* App starts rendering LiveCircuit for session s: generateMap starts;     *)
(* fetchBatch and fetchTelemetry return at once (no map, nobody followed). *)
LcMount(s, wall) ==
  /\ mapTransform' = NoSession
  /\ mapFor' = s
  /\ activeDriverId' = NoDriver
  /\ locationBuffer' = EmptyBuffer
  /\ lastFetchTime' = 0
  /\ locFetches' = {}
  /\ locDue' = wall + LocFetchIntervalMs
  /\ telemetryBuffer' = << >>
  /\ lastTelemetryFetchTime' = 0
  /\ telFetches' = {}
  /\ telDue' = wall + TelFetchIntervalMs
  /\ frame' = NoFrame

(* The session prop of a rendered LiveCircuit changes to s: the map, the   *)
(* location and the telemetry effects run again.                           *)
LcSessionChanged(s, t, wall) ==
  /\ mapFor' = s
  /\ LocationEffect(s, t, mapTransform, wall)
  /\ TelemetryEffect(s, t, activeDriverId, wall)
  /\ UNCHANGED << mapTransform, activeDriverId, locationBuffer, frame >>

(* What a render of App with view view2, session s2 and time t2 does to    *)
(* LiveCircuit.                                                            *)
LcOnRender(view2, s2, t2) ==
  LET was == Rendered(currentView, session, currentReplayTime)
      is  == Rendered(view2, s2, t2)
  IN CASE (~was) /\ is -> LcMount(s2, now)
       [] was /\ ~is   -> LcUnmount
       [] was /\ is /\ s2 # session -> LcSessionChanged(s2, t2, now)
       [] OTHER -> UNCHANGED lcState

(* Numbers.  JavaScript numbers that are not integers are fractions here:   *)
(* num / den with den > 0, in lowest terms.                                 *)
RECURSIVE GCD(_, _)
GCD(a, b) == IF b = 0 THEN a ELSE GCD(b, a % b)

Frac(n, d) ==
  LET g == GCD(Abs(n), Abs(d))
      s == IF d < 0 THEN -1 ELSE 1
  IN [num |-> (s * n) \div g, den |-> (s * d) \div g]
Whole(n) == [num |-> n, den |-> 1]
FracAdd(a, b) == Frac(a.num * b.den + b.num * a.den, a.den * b.den)
FracSub(a, b) == Frac(a.num * b.den - b.num * a.den, a.den * b.den)
FracMul(a, b) == Frac(a.num * b.num, a.den * b.den)
FracDiv(a, b) == Frac(a.num * b.den, a.den * b.num)
FracLess(a, b) == a.num * b.den < b.num * a.den

(* Math.round: the nearest integer, halves upwards *)
MathRound(a) == (2 * a.num + a.den) \div (2 * a.den)

(* A reading the API has no value for (JSON null) *)
NoReading == -1000000
(* Number.isFinite(v) ? v : 0, which is also what null becomes in          *)
(* JavaScript arithmetic                                                   *)
ToNumber(v) == IF v = NoReading THEN 0 ELSE v

----------------------------------------------------------------------------
(* components/TelemetryDashboard: getInterpolatedData and its helpers.      *)

(* (Math.random() - 0.5) * 50 lies in [-25, 25) *)
VibrationAmplitude == 50
Vibrations == { -(VibrationAmplitude \div 2), 0, VibrationAmplitude \div 2 - 1 }
VibrationThrottle == 80          \* throttle > 80
VibrationRpm      == 10000       \* rpm > 10000

KmhPerMs == Frac(36, 10)         \* p.speed / 3.6
StandardGravity == Frac(981, 100) \* accel / 9.81
MsPerSecond == 1000              \* (t2 - t1) / 1000

NoPacket == [none |-> TRUE]      \* null

(* TelemetryDashboard's lerp, "with safety checks" *)
lerp(start, end, factor) ==
  LET s == ToNumber(start)
      e == ToNumber(end)
  IN FracAdd(Whole(s), FracMul(Whole(e - s), factor))

(* { ...p, gForce: 0 } *)
WithZeroG(p) ==
  [date |-> p.date, speed |-> p.speed, rpm |-> p.rpm, throttle |-> p.throttle,
   brake |-> p.brake, gear |-> p.gear, drs |-> p.drs, gForce |-> Whole(0)]

(* the backwards search: the last i with data[i].date <= timeMs, 0 for -1 *)
LastAtOrBefore(series, timeMs) ==
  LET hits == { i \in DOMAIN series : series[i].date <= timeMs }
  IN IF hits = {} THEN 0 ELSE CHOOSE i \in hits : \A j \in hits : j <= i

(* the G-force of the bracket p1, p2 without the conversion of the speeds  *)
(* from km/h to m/s                                                        *)
GForceUnconverted(p1, p2) ==
  LET dt == Frac(p2.date - p1.date, MsPerSecond)
      accel == IF dt.num > 0
               THEN FracDiv(Whole(ToNumber(p2.speed) - ToNumber(p1.speed)), dt)
               ELSE Whole(0)
  IN FracDiv(accel, StandardGravity)

(* getInterpolatedData, "G-Force Calculation" *)
GForce(p1, p2) ==
  LET v1 == IF p1.speed # NoReading THEN FracDiv(Whole(p1.speed), KmhPerMs) ELSE Whole(0)
      v2 == IF p2.speed # NoReading THEN FracDiv(Whole(p2.speed), KmhPerMs) ELSE Whole(0)
      dt == Frac(p2.date - p1.date, MsPerSecond)
      accel == IF dt.num > 0 THEN FracDiv(FracSub(v2, v1), dt) ELSE Whole(0)
  IN FracDiv(accel, StandardGravity)

(* gear and DRS ramped like the continuous fields: what                    *)
(* Math.round(lerp(p1.gear, p2.gear, factor)) would give                   *)
RampedFields(p1, p2, factor) ==
  [gear |-> MathRound(lerp(p1.gear, p2.gear, factor)),
   drs |-> MathRound(lerp(p1.drs, p2.drs, factor))]

(* getInterpolatedData, "gear: p1.gear, drs: p1.drs" of the returned       *)
(* packet: the discrete fields between p1 and p2 at factor                 *)
DiscreteFields(p1, p2, factor) ==
  [gear |-> p1.gear, drs |-> p1.drs]

(* getInterpolatedData(data, time), vibration being what                   *)
(* (Math.random() - 0.5) * 50 gives in this call                           *)
getInterpolatedData(series, timeMs, vibration) ==
  IF Len(series) = 0 THEN NoPacket
  ELSE LET idx == LastAtOrBefore(series, timeMs) IN
    IF idx = 0 THEN WithZeroG(series[1])
    ELSE IF idx = Len(series) THEN WithZeroG(series[idx])
    ELSE LET p1 == series[idx]
             p2 == series[idx + 1]
             t1 == p1.date
             t2 == p2.date
         IN IF t2 = t1 THEN WithZeroG(p1)
            ELSE LET factor == Frac(timeMs - t1, t2 - t1)
                     speed == lerp(p1.speed, p2.speed, factor)
                     rpm == lerp(p1.rpm, p2.rpm, factor)
                     throttle == lerp(p1.throttle, p2.throttle, factor)
                     brake == lerp(p1.brake, p2.brake, factor)
                     displayRpm ==
                       IF FracLess(Whole(VibrationThrottle), throttle)
                            \/ FracLess(Whole(VibrationRpm), rpm)
                       THEN FracAdd(rpm, Whole(vibration)) ELSE rpm
                 IN [date |-> timeMs,
                     speed |-> MathRound(speed),
                     rpm |-> MathRound(displayRpm),
                     throttle |-> MathRound(throttle),
                     brake |-> MathRound(brake),
                     gear |-> DiscreteFields(p1, p2, factor).gear,
                     drs |-> DiscreteFields(p1, p2, factor).drs,
                     gForce |-> GForce(p1, p2)]

----------------------------------------------------------------------------
(* components/TelemetryDashboard: the component.                            *)
TdFetchIntervalMs == 250         \* setInterval(fetchTelemetry, 250)

(* Two records of /car_data, by what they read *)
Reading(date, kind) ==
  CASE kind = "slow"  -> [date |-> date, speed |-> 100, rpm |-> 9000, throttle |-> 40,
                          brake |-> 100, gear |-> 3, drs |-> 0]
    [] kind = "fast"  -> [date |-> date, speed |-> 172, rpm |-> 11000, throttle |-> 100,
                          brake |-> 0, gear |-> 4, drs |-> 12]
    [] OTHER          -> [date |-> date, speed |-> NoReading, rpm |-> 9000, throttle |-> 40,
                          brake |-> 0, gear |-> 3, drs |-> 0]

(* Array.prototype.sort by date of a series of records: a stable insertion *)
RECURSIVE InsertReading(_, _)
InsertReading(sorted, x) ==
  IF sorted = << >> THEN << x >>
  ELSE IF sorted[Len(sorted)].date <= x.date THEN Append(sorted, x)
  ELSE Append(InsertReading(SubSeq(sorted, 1, Len(sorted) - 1), x), sorted[Len(sorted)])

RECURSIVE SortReadings(_)
SortReadings(series) ==
  IF series = << >> THEN << >>
  ELSE InsertReading(SortReadings(SubSeq(series, 1, Len(series) - 1)), series[Len(series)])

(* What getCarData(sessionKey, driver, t, 45) resolves to: the records of  *)
(* the body with t - 45000 <= date <= t, sorted by date and mapped; the    *)
(* API may list one timestamp twice.  It rejects when the body holds a     *)
(* null record.                                                            *)
TdBodies(t) ==
  { << >>,
    << Reading(t - 100, "slow") >>,
    << Reading(t - 100, "fast"), Reading(t - 300, "slow") >>,
    << Reading(t - 100, "slow"), Reading(t - 100, "fast") >> }
TdBatches(t) ==
  { [throws |-> FALSE, data |-> SortReadings(body)] : body \in TdBodies(t) }
    \cup { [throws |-> TRUE, data |-> << >>] }

TdRendered(view, s, t) == view = "telemetry" /\ s # NoSession /\ t # NoTime

(* drivers.find(d => d.code === 'VER') || drivers[0] *)
PreferredDriver == Min(Drivers)

(* TelemetryDashboard.fetchTelemetry up to its await, with latestProps     *)
(* (s, t, a): the requests in flight afterwards                            *)
tdFetchTelemetry(s, t, a, F) ==
  IF a = NoDriver \/ t = NoTime THEN F
  ELSE F \cup { [sessionKey |-> s, time |-> t, driver |-> a, isMounted |-> TRUE] }

(* The fetch-loop effect (deps selectedDriverId) runs again at wall time   *)
(* wall: cleanup, the immediate fetchTelemetry(), setInterval.             *)
TdFetchEffect(s, t, a, wall) ==
  LET F == tdFetchTelemetry(s, t, a, Unmounted(tdFetches)) IN
    /\ InFlightBounded(F)
    /\ tdFetches' = F
    /\ tdDue' = wall + TdFetchIntervalMs

(* The interpolation effect (deps currentTime, telemetry) with series tel  *)
(* and currentTime t                                                       *)
InterpolationEffect(tel, t) ==
  IF Len(tel) < 2 THEN UNCHANGED displayPacket
  ELSE \E v \in Vibrations : displayPacket' = getInterpolatedData(tel, t, v)

TdAbsent ==
  /\ selectedDriverId = NoDriver
  /\ telemetry = << >>
  /\ displayPacket = NoPacket
  /\ tdFetches = {}
  /\ tdDue = NoTime

(* App stops rendering TelemetryDashboard *)
TdUnmount ==
  /\ selectedDriverId' = NoDriver
  /\ telemetry' = << >>
  /\ displayPacket' = NoPacket
  /\ tdFetches' = {}
  /\ tdDue' = NoTime

(* App starts rendering TelemetryDashboard with session s and time t: the  *)
(* driver effect selects the preferred driver, and the fetch-loop effect   *)
(* runs for it.                                                            *)
TdMount(s, t, wall) ==
  /\ selectedDriverId' = PreferredDriver
  /\ telemetry' = << >>
  /\ displayPacket' = NoPacket
  /\ tdFetches' = tdFetchTelemetry(s, t, PreferredDriver, {})
  /\ tdDue' = wall + TdFetchIntervalMs

(* What a render of App with view view2, session s2 and time t2 does to    *)
(* TelemetryDashboard.                                                     *)
TdOnRender(view2, s2, t2) ==
  LET was == TdRendered(currentView, session, currentReplayTime)
      is  == TdRendered(view2, s2, t2)
  IN CASE (~was) /\ is -> TdMount(s2, t2, now)
       [] was /\ ~is   -> TdUnmount
       [] was /\ is /\ t2 # currentReplayTime ->
            /\ InterpolationEffect(telemetry, t2)
            /\ UNCHANGED << selectedDriverId, telemetry, tdFetches, tdDue >>
       [] OTHER -> UNCHANGED tdVars

----------------------------------------------------------------------------
(* App: the "Messages & Track Status" effect (deps session,                *)
(* currentReplayTime): setInterval(fetchMsgs, 5000), cleared and           *)
(* registered again by every render in which a dependency changed.         *)
PollIntervalMs == 5000

MsgAbsent ==
  /\ msgDue = NoTime
  /\ msgFetches = {}
  /\ messagesAt = NoTime
  /\ playingSince = NoTime
  /\ polledAt = NoTime

(* the effect body at wall time wall *)
MessagesEffect(s, t, wall) ==
  IF s = NoSession \/ t = NoTime THEN NoTime ELSE wall + PollIntervalMs

(* What a render of App with isPlaying playing2, session s2 and time t2    *)
(* does to the poll; timeSet: the handler called setCurrentReplayTime      *)
(* (with a new Date object, which changes the dependency whatever its      *)
(* value).                                                                 *)
MsgOnRender(playing2, s2, t2, timeSet, wall) ==
  LET was == isPlaying /\ session # NoSession /\ currentReplayTime # NoTime
      is  == playing2 /\ s2 # NoSession /\ t2 # NoTime
  IN /\ msgDue' = IF timeSet \/ s2 # session
                   THEN MessagesEffect(s2, t2, wall) ELSE msgDue
     /\ playingSince' = IF ~is THEN NoTime
                         ELSE IF was /\ s2 = session THEN playingSince ELSE wall
     /\ UNCHANGED << msgFetches, messagesAt, polledAt >>

----------------------------------------------------------------------------
(* the timers registered, and which of them fires next *)
Dues == { tickDue, locDue, telDue, tdDue } \ { NoTime }
Earliest(due) == due # NoTime /\ \A d \in Dues : due <= d

----------------------------------------------------------------------------
(* App: the user (or fetchSessionList) selects session k; the session      *)
(* effect starts initSession, which suspends at its first await.           *)
SelectSession(k) ==
  /\ k # session
  /\ used.selects < MaxSelects
  /\ LET e == LiveStatusEffect(k, currentReplayTime, playbackSpeed, now) IN
       /\ session' = k
       /\ initPc' = "drivers"
       /\ isPlaying' = FALSE
       /\ isSessionLive' = e.live
       /\ isAtLiveHead' = e.head
       /\ playbackSpeed' = e.speed
       /\ tickDue' = TickDueAfter(FALSE, k, e.speed, now)
       /\ appFetches' = Supersede(CyclesAfter(FALSE, k, e.speed, appFetches))
  /\ used' = [used EXCEPT !.selects = @ + 1]
  /\ seekHold' = NoTime
  /\ lastEvent' = "select"
  /\ LcOnRender(currentView, k, currentReplayTime)
  /\ TdOnRender(currentView, k, currentReplayTime)
  /\ MsgOnRender(FALSE, k, currentReplayTime, FALSE, now)
  /\ UNCHANGED << apiVars, currentView, fnVars >>
  /\ UNCHANGED << now, currentReplayTime, replayTimeRef, sessionStartTime,
                  sessionEndTime, loopCounterRef, isFetchingRef, drivers, weather, requestedAt >>

(* initSession after getSessionDrivers, getLaps, getStints: lines 334-354 *)
InitSetTimes ==
  /\ initPc = "drivers"
  /\ LET startTime == SessionStart(session)
         e == LiveStatusEffect(session, startTime, playbackSpeed, now) IN
       /\ sessionStartTime' = startTime
       /\ sessionEndTime' = SessionEnd(session)
       /\ currentReplayTime' = startTime
       /\ replayTimeRef' = startTime
       /\ isSessionLive' = e.live
       /\ isAtLiveHead' = e.head
       /\ playbackSpeed' = e.speed
       /\ tickDue' = TickDueAfter(isPlaying, session, e.speed, now)
       /\ appFetches' = CyclesAfter(isPlaying, session, e.speed, appFetches)
  /\ drivers' = NoTime
  /\ requestedAt' = NoTime
  /\ UNCHANGED weather
  /\ initPc' = "grid"
  /\ seekHold' = NoTime
  /\ lastEvent' = "init"
  /\ LcOnRender(currentView, session, SessionStart(session))
  /\ TdOnRender(currentView, session, SessionStart(session))
  /\ MsgOnRender(isPlaying, session, SessionStart(session), TRUE, now)
  /\ UNCHANGED << apiVars, currentView, fnVars >>
  /\ UNCHANGED << now, session, isPlaying, loopCounterRef, isFetchingRef, used >>

(* initSession after getHistoricalPositions/Intervals: lines 364-393 *)
InitFinish ==
  /\ initPc = "grid"
  /\ initPc' = "done"
  /\ drivers' = SessionStart(session)
  /\ UNCHANGED << weather, requestedAt >>
  /\ isPlaying' = TRUE
  /\ tickDue' = TickDueAfter(TRUE, session, playbackSpeed, now)
  /\ appFetches' = CyclesAfter(TRUE, session, playbackSpeed, appFetches)
  /\ lastEvent' = "init"
  /\ MsgOnRender(TRUE, session, currentReplayTime, FALSE, now)
  /\ UNCHANGED << apiVars, lcVars, tdVars, fnVars >>
  /\ UNCHANGED << now, session, currentReplayTime, replayTimeRef, sessionStartTime,
                  sessionEndTime, isSessionLive, isAtLiveHead, playbackSpeed,
                  loopCounterRef, isFetchingRef, used, seekHold >>

----------------------------------------------------------------------------
(* The values the range input (min = sessionStartTime, max = sessionEndTime, *)
(* step = 1000) can deliver: one near the start, the maximum, and the one    *)
(* next to the wall clock.                                                   *)
OnSeekGrid(x) ==
  sessionStartTime + ((x - sessionStartTime) \div SeekStepMs) * SeekStepMs
SeekTargets ==
  { t \in { sessionStartTime + SeekStepMs,
            OnSeekGrid(sessionEndTime), OnSeekGrid(now) } :
      t >= sessionStartTime /\ t <= sessionEndTime }

SliderRendered ==
  sessionStartTime # NoTime /\ sessionEndTime # NoTime /\ currentReplayTime # NoTime

(* App.handleSeek: the slider's onChange *)
handleSeek(t) ==
  /\ SliderRendered
  /\ t \in SeekTargets
  /\ used.cmds < MaxCommands
  /\ LET e == LiveStatusEffect(session, t, playbackSpeed, now) IN
       /\ isPlaying' = FALSE
       /\ currentReplayTime' = t
       /\ replayTimeRef' = t
       /\ isSessionLive' = e.live
       /\ isAtLiveHead' = e.head
       /\ playbackSpeed' = e.speed
       /\ tickDue' = TickDueAfter(FALSE, session, e.speed, now)
       /\ appFetches' = Supersede(CyclesAfter(FALSE, session, e.speed, appFetches))
  /\ used' = [used EXCEPT !.cmds = @ + 1]
  /\ seekHold' = t
  /\ requestedAt' = NoTime
  /\ lastEvent' = "seek"
  /\ TdOnRender(currentView, session, t)
  /\ MsgOnRender(FALSE, session, t, TRUE, now)
  /\ UNCHANGED << apiVars, lcVars, fnVars >>
  /\ UNCHANGED << now, session, initPc, sessionStartTime, sessionEndTime,
                  loopCounterRef, isFetchingRef, drivers, weather >>

(* App.handleSeekCommit up to its first await: the slider's onMouseUp *)
handleSeekCommit ==
  /\ used.cmds < MaxCommands
  /\ used' = [used EXCEPT !.cmds = @ + 1]
  /\ SliderRendered
  /\ replayTimeRef # NoTime /\ session # NoSession
  /\ Cardinality(appFetches) < MaxInFlight
  /\ appFetches' = appFetches \cup
       { [id |-> FreeId, kind |-> "seek", stage |-> "hist", time |-> replayTimeRef,
          aborted |-> FALSE, superseded |-> FALSE, weather |-> FALSE] }
  /\ lastEvent' = "commit"
  /\ UNCHANGED notApp
  /\ UNCHANGED << now, session, initPc, isPlaying, currentReplayTime, replayTimeRef,
                  sessionStartTime, sessionEndTime, isSessionLive, isAtLiveHead,
                  playbackSpeed, loopCounterRef, isFetchingRef, tickDue, drivers, weather, requestedAt,
                  seekHold >>

(* handleGoLive without the lag behind the wall clock: buffer = now *)
handleGoLiveAtWallClock ==
  /\ used.cmds < MaxCommands
  /\ used' = [used EXCEPT !.cmds = @ + 1]
  /\ isSessionLive /\ ~isAtLiveHead
  /\ session # NoSession
  /\ LET buffer == now
         e == LiveStatusEffect(session, buffer, 1, now) IN
       /\ currentReplayTime' = buffer
       /\ replayTimeRef' = buffer
       /\ playbackSpeed' = e.speed
       /\ isPlaying' = TRUE
       /\ isSessionLive' = e.live
       /\ isAtLiveHead' = e.head
       /\ tickDue' = TickDueAfter(TRUE, session, e.speed, now)
       /\ appFetches' = CyclesAfter(TRUE, session, e.speed, appFetches)
  /\ seekHold' = NoTime
  /\ requestedAt' = NoTime
  /\ lastEvent' = "golive"
  /\ TdOnRender(currentView, session, now)
  /\ MsgOnRender(TRUE, session, now, TRUE, now)
  /\ UNCHANGED << apiVars, lcVars, fnVars >>
  /\ UNCHANGED << now, session, initPc, sessionStartTime, sessionEndTime,
                  loopCounterRef, isFetchingRef, drivers, weather >>

(* App.handleGoLive; the GO LIVE button is rendered only while             *)
(* isSessionLive && !isAtLiveHead                                          *)
handleGoLive ==
  /\ used.cmds < MaxCommands
  /\ used' = [used EXCEPT !.cmds = @ + 1]
  /\ isSessionLive /\ ~isAtLiveHead
  /\ session # NoSession
  /\ LET buffer == now - GoLiveLagMs
         e == LiveStatusEffect(session, buffer, 1, now) IN
       /\ currentReplayTime' = buffer
       /\ replayTimeRef' = buffer
       /\ playbackSpeed' = e.speed
       /\ isPlaying' = TRUE
       /\ isSessionLive' = e.live
       /\ isAtLiveHead' = e.head
       /\ tickDue' = TickDueAfter(TRUE, session, e.speed, now)
       /\ appFetches' = CyclesAfter(TRUE, session, e.speed, appFetches)
  /\ seekHold' = NoTime
  /\ requestedAt' = NoTime
  /\ lastEvent' = "golive"
  /\ TdOnRender(currentView, session, now - GoLiveLagMs)
  /\ MsgOnRender(TRUE, session, now - GoLiveLagMs, TRUE, now)
  /\ UNCHANGED << apiVars, lcVars, fnVars >>
  /\ UNCHANGED << now, session, initPc, sessionStartTime, sessionEndTime,
                  loopCounterRef, isFetchingRef, drivers, weather >>

(* The play/pause button: onClick={() => setIsPlaying(!isPlaying)}.  Its    *)
(* container has pointer-events-none while isAtLiveHead.                    *)
TogglePlay ==
  /\ used.cmds < MaxCommands
  /\ used' = [used EXCEPT !.cmds = @ + 1]
  /\ ~isAtLiveHead
  /\ isPlaying' = ~isPlaying
  /\ tickDue' = TickDueAfter(~isPlaying, session, playbackSpeed, now)
  /\ appFetches' = CyclesAfter(~isPlaying, session, playbackSpeed, appFetches)
  /\ seekHold' = IF isPlaying THEN seekHold ELSE NoTime
  /\ lastEvent' = IF isPlaying THEN "pause" ELSE "play"
  /\ MsgOnRender(~isPlaying, session, currentReplayTime, FALSE, now)
  /\ UNCHANGED << apiVars, lcVars, tdVars, fnVars >>
  /\ UNCHANGED << now, session, initPc, currentReplayTime, replayTimeRef,
                  sessionStartTime, sessionEndTime, isSessionLive, isAtLiveHead,
                  playbackSpeed, loopCounterRef, isFetchingRef, drivers, weather, requestedAt >>

(* A speed button: onClick={() => setPlaybackSpeed(speed)}, in the same     *)
(* container.  The live-status effect runs on the new speed and may put 1   *)
(* back; the playback loop is re-registered by each of the two renders.     *)
SetPlaybackSpeed(n) ==
  /\ used.cmds < MaxCommands
  /\ used' = [used EXCEPT !.cmds = @ + 1]
  /\ ~isAtLiveHead
  /\ n \in PLAYBACK_SPEEDS /\ n # playbackSpeed
  /\ LET e == LiveStatusEffect(session, currentReplayTime, n, now) IN
       /\ playbackSpeed' = e.speed
       /\ isSessionLive' = e.live
       /\ isAtLiveHead' = e.head
  /\ tickDue' = PlaybackLoopEffect(isPlaying, session, now)
  /\ appFetches' = AbortTickCycles(appFetches)
  /\ lastEvent' = "rate"
  /\ UNCHANGED notApp
  /\ UNCHANGED << now, session, initPc, isPlaying, currentReplayTime, replayTimeRef,
                  sessionStartTime, sessionEndTime, loopCounterRef, isFetchingRef,
                  drivers, weather, requestedAt, seekHold >>

----------------------------------------------------------------------------
WeatherEveryTicks == 300
FetchWindowMs     == 1100      \* windowSeconds = 1.1

(* fetchDataForTime(time, ...): the span [from, to) of virtual time that   *)
(* getPositionsAtTime and getIntervalsAtTime are asked for                 *)
FetchFrom(time) == time - FetchWindowMs
FetchTo(time)   == FetchFrom(time) + FetchWindowMs

(* fetchDataForTime: `!isThrottledUpdate || loopCounterRef.current % 300   *)
(* === 0`, evaluated when it is read                                       *)
WantsWeather(isThrottledUpdate, counter) ==
  ~isThrottledUpdate \/ counter % WeatherEveryTicks = 0

(* App: fetchDataForTime(time, signal, isThrottledUpdate) up to its await  *)
StartTickCycle(time, counter) ==
  [id |-> FreeId, kind |-> "tick", stage |-> "data", time |-> time,
   aborted |-> FALSE, superseded |-> FALSE,
   weather |-> WantsWeather(TRUE, counter)]

(* fetchDataForTime after its await, for a non-empty weather response:     *)
(* weatherData is results[2] if the condition holds now, and results[2] is *)
(* undefined when the cycle pushed no weather request                      *)
WeatherAfter(isThrottledUpdate, requested, counter, time) ==
  IF WantsWeather(isThrottledUpdate, counter) /\ requested THEN time ELSE weather

(* App.tick, `if (!replayTimeRef.current) return`: the callback returns    *)
(* at once; only the interval timer is armed again.                        *)
tickReturns ==
  /\ tickDue' = tickDue + updateIntervalMs
  /\ lastEvent' = "tick"
  /\ UNCHANGED notApp
  /\ UNCHANGED << session, initPc, isPlaying, currentReplayTime,
                  replayTimeRef, sessionStartTime, sessionEndTime,
                  isSessionLive, isAtLiveHead, playbackSpeed, loopCounterRef,
                  isFetchingRef, appFetches, drivers, weather, requestedAt, seekHold >>

(* a tick that adds the wall-clock interval, not scaled by the rate *)
tickAdvancesUnscaled ==
  LET nextTime == replayTimeRef + updateIntervalMs
      counter  == loopCounterRef + 1
      starts   == counter % FetchEveryTicks = 0 /\ ~isFetchingRef
      cycles   == IF starts
                  THEN appFetches \cup {StartTickCycle(nextTime, counter)}
                  ELSE appFetches
      e == LiveStatusEffect(session, nextTime, playbackSpeed, tickDue)
  IN /\ replayTimeRef' = nextTime
     /\ currentReplayTime' = nextTime
     /\ loopCounterRef' = counter
     /\ isFetchingRef' = (isFetchingRef \/ starts)
     /\ requestedAt' = IF starts THEN nextTime ELSE requestedAt
     /\ isSessionLive' = e.live
     /\ isAtLiveHead' = e.head
     /\ playbackSpeed' = e.speed
     /\ appFetches' = CyclesAfter(isPlaying, session, e.speed, cycles)
     /\ tickDue' = tickDue + updateIntervalMs
     /\ lastEvent' = "tick"
     /\ TdOnRender(currentView, session, nextTime)
     /\ MsgOnRender(isPlaying, session, nextTime, TRUE, tickDue)
     /\ UNCHANGED << apiVars, lcVars, fnVars >>
     /\ UNCHANGED << session, initPc, isPlaying, sessionStartTime,
                     sessionEndTime, drivers, weather, seekHold >>

(* App.tick past the null check: the clock advances, every 10th tick a     *)
(* request cycle starts unless one is pending; then the effects of the     *)
(* render it causes.                                                       *)
tickAdvances ==
  LET nextTime == replayTimeRef + playbackSpeed * updateIntervalMs
      counter  == loopCounterRef + 1
      starts   == counter % FetchEveryTicks = 0 /\ ~isFetchingRef
      cycles   == IF starts
                  THEN appFetches \cup {StartTickCycle(nextTime, counter)}
                  ELSE appFetches
      e == LiveStatusEffect(session, nextTime, playbackSpeed, tickDue)
  IN /\ replayTimeRef' = nextTime
     /\ currentReplayTime' = nextTime
     /\ loopCounterRef' = counter
     /\ isFetchingRef' = (isFetchingRef \/ starts)
     /\ requestedAt' = IF starts THEN nextTime ELSE requestedAt
     /\ isSessionLive' = e.live
     /\ isAtLiveHead' = e.head
     /\ playbackSpeed' = e.speed
     /\ appFetches' = CyclesAfter(isPlaying, session, e.speed, cycles)
     /\ tickDue' = tickDue + updateIntervalMs
     /\ lastEvent' = "tick"
     /\ TdOnRender(currentView, session, nextTime)
     /\ MsgOnRender(isPlaying, session, nextTime, TRUE, tickDue)
     /\ UNCHANGED << apiVars, lcVars, fnVars >>
     /\ UNCHANGED << session, initPc, isPlaying, sessionStartTime,
                     sessionEndTime, drivers, weather, seekHold >>

(* A tick that waits for the pending request cycle instead of advancing *)
tickAwaitsFetch ==
  IF replayTimeRef = NoTime \/ isFetchingRef THEN tickReturns ELSE tickAdvances

(* App: the tick callback of the playback loop *)
tick ==
  IF replayTimeRef = NoTime THEN tickReturns ELSE tickAdvances

(* The interval timer of the playback loop fires: wall-clock time has      *)
(* passed until it is due.                                                 *)
Tick ==
  /\ Earliest(tickDue)
  /\ used.wall + (tickDue - now) <= MaxWallMs
  /\ now' = tickDue
  /\ used' = [used EXCEPT !.wall = @ + (tickDue - now)]
  /\ tick

(* Wall-clock time passes while no timer is registered (paused) *)
IdleWaits == { LiveHeadThresholdMs + 1000 }
IdleWait(d) ==
  /\ Dues = {}
  /\ session # NoSession
  /\ used.jumps < MaxIdleJumps
  /\ now' = now + d
  /\ used' = [used EXCEPT !.jumps = @ + 1]
  /\ UNCHANGED notApp
  /\ UNCHANGED << session, initPc, isPlaying, currentReplayTime, replayTimeRef,
                  sessionStartTime, sessionEndTime, isSessionLive, isAtLiveHead,
                  playbackSpeed, loopCounterRef, isFetchingRef, tickDue, appFetches,
                  drivers, weather, requestedAt, seekHold, lastEvent >>

(* The responses of a request cycle arrive: the continuation of            *)
(* fetchDataForTime after `await Promise.all`, with the finally of tick,   *)
(* or the continuation of handleSeekCommit after its await.                *)
AppFetchResponse(f) ==
  /\ f \in appFetches
  /\ lastEvent' = "response"
  /\ UNCHANGED notApp
  /\ CASE f.kind = "tick" ->
            /\ appFetches' = appFetches \ {f}
            /\ isFetchingRef' = FALSE
            /\ drivers' = IF f.aborted THEN drivers ELSE f.time
            /\ weather' = IF f.aborted THEN weather
                          ELSE WeatherAfter(TRUE, f.weather, loopCounterRef, f.time)
       [] f.kind = "seek" /\ f.stage = "hist" ->
            /\ drivers' = f.time
            /\ UNCHANGED weather
            /\ appFetches' = (appFetches \ {f}) \cup
                 { [f EXCEPT !.stage = "data", !.time = replayTimeRef,
                             !.superseded = FALSE, !.weather = TRUE] }
            /\ UNCHANGED isFetchingRef
       [] f.kind = "seek" /\ f.stage = "data" ->
            /\ appFetches' = appFetches \ {f}
            /\ drivers' = IF f.aborted THEN drivers ELSE f.time
            /\ weather' = IF f.aborted THEN weather
                          ELSE WeatherAfter(FALSE, f.weather, loopCounterRef, f.time)
            /\ UNCHANGED isFetchingRef
  /\ UNCHANGED << now, session, initPc, isPlaying, currentReplayTime, replayTimeRef,
                  sessionStartTime, sessionEndTime, isSessionLive, isAtLiveHead,
                  playbackSpeed, loopCounterRef, tickDue, used, seekHold, requestedAt >>

(* An uninterrupted run of the playback loop: the k consecutive ticks, 100  *)
(* ms of wall clock apart, that bring the replay to within the live-head    *)
(* threshold of the wall clock, while the request cycle started before the  *)
(* run stays pending (isFetchingRef), so that no tick of the run starts one.*)
(* The live-status effect runs after each of them; before the last one it   *)
(* finds atHead false, so that it forces no speed.                          *)
(* Before the run the replay is gap ms behind the wall clock; every tick   *)
(* closes playbackSpeed * 100 - 100 ms of it (the replay advances by        *)
(* speed * 100, the wall clock by 100); TicksToHead is the first tick after *)
(* which the gap is below the threshold.                                    *)
GapBeforeRun == tickDue - updateIntervalMs - replayTimeRef
ClosedPerTick == (playbackSpeed - 1) * updateIntervalMs
TicksToHead == (GapBeforeRun - LiveHeadThresholdMs) \div ClosedPerTick + 1
FastForward ==
  /\ Dues = { tickDue }
  /\ isFetchingRef /\ replayTimeRef # NoTime
  /\ playbackSpeed > 1
  /\ GapBeforeRun >= LiveHeadThresholdMs
  /\ TicksToHead > 1 /\ TicksToHead <= MaxFastForward
  /\ LET k == TicksToHead
         wall == tickDue + (k - 1) * updateIntervalMs
         t == replayTimeRef + k * playbackSpeed * updateIntervalMs
         e == LiveStatusEffect(session, t, playbackSpeed, wall)
     IN /\ now' = wall
        /\ replayTimeRef' = t
        /\ currentReplayTime' = t
        /\ loopCounterRef' = loopCounterRef + k
        /\ isSessionLive' = e.live
        /\ isAtLiveHead' = e.head
        /\ playbackSpeed' = e.speed
        /\ appFetches' = CyclesAfter(isPlaying, session, e.speed, appFetches)
        /\ tickDue' = wall + updateIntervalMs
  /\ lastEvent' = "tick"
  /\ TdOnRender(currentView, session, replayTimeRef + TicksToHead * playbackSpeed * updateIntervalMs)
  /\ MsgOnRender(isPlaying, session,
                 replayTimeRef + TicksToHead * playbackSpeed * updateIntervalMs, TRUE,
                 tickDue + (TicksToHead - 1) * updateIntervalMs)
  /\ UNCHANGED << apiVars, lcVars, fnVars >>
  /\ UNCHANGED << session, initPc, isPlaying, sessionStartTime, sessionEndTime,
                  isFetchingRef, drivers, weather, requestedAt, used, seekHold >>

----------------------------------------------------------------------------
(* services/openf1Service: fetchAPI(endpoint, retries = 3, backoff = 1000). *)
(* A call is a record: pc is where it stands (throttle: in the throttle     *)
(* delay; fetching: fetch() pending; backoff: in the 429 delay; done),      *)
(* retries and backoff its current arguments, wakeAt the wall time its      *)
(* delay ends, attempts the fetch() calls it made, lastWait the length of   *)
(* its previous 429 wait, result what the promise settled to.               *)
MIN_REQUEST_INTERVAL == 150
DefaultRetries == 3
DefaultBackoff == 1000
JitterLimitMs  == 500

MaxCalls   == 3                  \* fetchAPI calls made by the callers
MaxTooMany == 4                  \* 429 responses the server gives
Jitters    == { 0, JitterLimitMs - 1 }   \* floor of Math.random() * 500
Latencies  == { 50 }             \* wall time a fetch takes
(* ok: 2xx with a JSON body; 429; error: any other status, a network       *)
(* failure, an abort or a body that is not JSON, all of which throw        *)
Responses  == { "ok", "429", "error" }

(* requestLog holds the wall times of the last two fetch() calls *)
Logged(log, t) == IF Len(log) < 2 THEN Append(log, t) ELSE << log[2], t >>
TooManySoFar == LET RECURSIVE Sum(_)
                    Sum(i) == IF i = 0 THEN 0 ELSE apiCalls[i].waits + apiCalls[i].refused + Sum(i - 1)
                IN Sum(Len(apiCalls))

ApiInit ==
  /\ lastRequestTime = 0
  /\ apiCalls = << >>
  /\ requestLog = << >>

(* the state of a call that reached `const res = await fetch(...)` at wall *)
Fetching(c, wall) ==
  [c EXCEPT !.pc = "fetching", !.wakeAt = NoTime, !.attempts = @ + 1]

(* fetchAPI from its entry to its first await, entered at wall time wall:   *)
(* the throttle check, then either the delay or the fetch.                  *)
Enter(c, wall) ==
  LET timeSinceLast == wall - lastRequestTime IN
    IF timeSinceLast < MIN_REQUEST_INTERVAL
    THEN [c EXCEPT !.pc = "throttle",
                   !.wakeAt = wall + (MIN_REQUEST_INTERVAL - timeSinceLast)]
    ELSE Fetching(c, wall)

NewCall ==
  [pc |-> "new", retries |-> DefaultRetries, backoff |-> DefaultBackoff,
   wakeAt |-> NoTime, attempts |-> 0, lastWait |-> 0, waits |-> 0,
   refused |-> 0, result |-> "none"]

(* what a call does after entry: log the request when it started a fetch *)
AfterEnter(id, c) ==
  LET c2 == Enter(c, now) IN
    /\ apiCalls' = IF id \in DOMAIN apiCalls THEN [apiCalls EXCEPT ![id] = c2]
                   ELSE Append(apiCalls, c2)
    /\ IF c2.pc = "fetching"
       THEN /\ lastRequestTime' = now
            /\ requestLog' = Logged(requestLog, now)
       ELSE UNCHANGED << lastRequestTime, requestLog >>

(* a caller (getPositionsAtTime, getCarData, ...) calls fetchAPI *)
CallFetchAPI ==
  /\ Len(apiCalls) < MaxCalls
  /\ AfterEnter(Len(apiCalls) + 1, NewCall)
  /\ UNCHANGED << now, appVars, lcVars, tdVars, msgVars, fnVars >>

Sleeping == { i \in DOMAIN apiCalls : apiCalls[i].pc \in {"throttle", "backoff"} }
NextWake == Min({ apiCalls[i].wakeAt : i \in Sleeping })

(* the throttle delay of call id ends: lastRequestTime = Date.now(); fetch  *)
ThrottleEnds(id) ==
  /\ id \in Sleeping /\ apiCalls[id].pc = "throttle"
  /\ apiCalls[id].wakeAt = NextWake
  /\ now' = IF now < NextWake THEN NextWake ELSE now
  /\ apiCalls' = [apiCalls EXCEPT ![id] = Fetching(@, now')]
  /\ lastRequestTime' = now'
  /\ requestLog' = Logged(requestLog, now')
  /\ UNCHANGED << appVars, lcVars, tdVars, msgVars, fnVars >>

(* what the promise of a call settles to when its fetch ends with response  *)
(* r and no retry is made: every throw inside the try is caught and         *)
(* becomes [].                                                              *)
SettleOutsideTry(r) ==
  IF r = "ok" THEN "data" ELSE IF r = "429" THEN "rejected" ELSE "empty"

Settle(r) == IF r = "ok" THEN "data" ELSE "empty"

(* the fetch of call id ends with response r after some latency *)
FetchEnds(id, r, lat, jitter) ==
  /\ id \in DOMAIN apiCalls /\ apiCalls[id].pc = "fetching"
  /\ Sleeping # {} => now + lat <= NextWake
  /\ r = "429" => TooManySoFar < MaxTooMany
  /\ now' = now + lat
  /\ LET c == apiCalls[id] IN
       apiCalls' = [apiCalls EXCEPT ![id] =
         IF r = "429" /\ c.retries > 0
         THEN LET waitTime == c.backoff + jitter IN
                [c EXCEPT !.pc = "backoff", !.wakeAt = now' + waitTime,
                          !.lastWait = waitTime, !.waits = @ + 1]
         ELSE [c EXCEPT !.pc = "done", !.result = Settle(r),
                        !.refused = IF r = "429" THEN 1 ELSE 0] ]
  /\ UNCHANGED << lastRequestTime, requestLog, appVars, lcVars, tdVars, msgVars, fnVars >>

(* the 429 delay of call id ends: return fetchAPI(endpoint, retries - 1,    *)
(* backoff * 1.5, init)                                                     *)
BackoffEnds(id) ==
  /\ id \in Sleeping /\ apiCalls[id].pc = "backoff"
  /\ apiCalls[id].wakeAt = NextWake
  /\ now' = IF now < NextWake THEN NextWake ELSE now
  /\ LET c == apiCalls[id]
         c2 == [c EXCEPT !.retries = @ - 1, !.backoff = (@ * 3) \div 2]
         timeSinceLast == now' - lastRequestTime
     IN IF timeSinceLast < MIN_REQUEST_INTERVAL
        THEN /\ apiCalls' = [apiCalls EXCEPT ![id] =
                  [c2 EXCEPT !.pc = "throttle",
                             !.wakeAt = now' + (MIN_REQUEST_INTERVAL - timeSinceLast)]]
             /\ UNCHANGED << lastRequestTime, requestLog >>
        ELSE /\ apiCalls' = [apiCalls EXCEPT ![id] = Fetching(c2, now')]
             /\ lastRequestTime' = now'
             /\ requestLog' = Logged(requestLog, now')
  /\ UNCHANGED << appVars, lcVars, tdVars, msgVars, fnVars >>


----------------------------------------------------------------------------
(* App: a view button, onClick={() => setCurrentView(v)} *)
Views == { "dashboard", "telemetry", "circuit" }
SetCurrentView(v) ==
  /\ v \in Views /\ v # currentView
  /\ used.cmds < MaxCommands
  /\ used' = [used EXCEPT !.cmds = @ + 1]
  /\ currentView' = v
  /\ LcOnRender(v, session, currentReplayTime)
  /\ TdOnRender(v, session, currentReplayTime)
  /\ lastEvent' = "view"
  /\ UNCHANGED << now, apiVars, msgVars, fnVars, session, initPc, isPlaying, currentReplayTime,
                  replayTimeRef, sessionStartTime, sessionEndTime, isSessionLive,
                  isAtLiveHead, playbackSpeed, loopCounterRef, isFetchingRef,
                  tickDue, appFetches, drivers, weather, requestedAt, seekHold >>

(* what the handlers of LiveCircuit do not touch *)
notCircuit == << apiVars, tdVars, msgVars, fnVars, currentView, session, initPc, isPlaying, currentReplayTime,
                 replayTimeRef, sessionStartTime, sessionEndTime, isSessionLive,
                 isAtLiveHead, playbackSpeed, loopCounterRef, isFetchingRef,
                 tickDue, appFetches, drivers, weather, requestedAt, seekHold >>

(* LiveCircuit.generateMap resolves while mounted: setMapTransform, and    *)
(* the location effect runs again.                                         *)
MapLoaded ==
  /\ Rendered(currentView, session, currentReplayTime)
  /\ mapFor # NoSession
  /\ mapTransform' = mapFor
  /\ mapFor' = NoSession
  /\ LocationEffect(session, currentReplayTime, mapFor, now)
  /\ lastEvent' = "map"
  /\ UNCHANGED << now, used, notCircuit, activeDriverId, locationBuffer,
                  telemetryBuffer, lastTelemetryFetchTime, telFetches, telDue, frame >>

(* TrackMap.onDriverFollowed = setActiveDriverId: the telemetry effect     *)
(* runs again.                                                             *)
FollowDriver(a) ==
  /\ Rendered(currentView, session, currentReplayTime)
  /\ a \in Drivers \cup { NoDriver } /\ a # activeDriverId
  /\ used.cmds < MaxCommands
  /\ used' = [used EXCEPT !.cmds = @ + 1]
  /\ activeDriverId' = a
  /\ TelemetryEffect(session, currentReplayTime, a, now)
  /\ lastEvent' = "follow"
  /\ UNCHANGED << now, notCircuit, mapTransform, mapFor, locationBuffer,
                  lastFetchTime, locFetches, locDue, frame >>

(* setInterval(fetchBatch, 1000) fires *)
LocTimer ==
  /\ Earliest(locDue)
  /\ used.wall + (locDue - now) <= MaxWallMs
  /\ now' = locDue
  /\ used' = [used EXCEPT !.wall = @ + (locDue - now)]
  /\ LET r == fetchBatch(session, currentReplayTime, mapTransform, locFetches,
                         lastFetchTime) IN
       /\ InFlightBounded(r.fetches)
       /\ locFetches' = r.fetches
       /\ lastFetchTime' = r.last
  /\ locDue' = locDue + LocFetchIntervalMs
  /\ lastEvent' = "locTimer"
  /\ UNCHANGED << notCircuit, mapTransform, mapFor, activeDriverId, locationBuffer,
                  telemetryBuffer, lastTelemetryFetchTime, telFetches, telDue, frame >>

(* setInterval(fetchTelemetry, 250) fires *)
TelTimer ==
  /\ Earliest(telDue)
  /\ used.wall + (telDue - now) <= MaxWallMs
  /\ now' = telDue
  /\ used' = [used EXCEPT !.wall = @ + (telDue - now)]
  /\ LET r == fetchTelemetry(session, currentReplayTime, activeDriverId, telFetches,
                             lastTelemetryFetchTime) IN
       /\ InFlightBounded(r.fetches)
       /\ telFetches' = r.fetches
       /\ lastTelemetryFetchTime' = r.last
  /\ telDue' = telDue + TelFetchIntervalMs
  /\ lastEvent' = "telTimer"
  /\ UNCHANGED << notCircuit, mapTransform, mapFor, activeDriverId, locationBuffer,
                  lastFetchTime, locFetches, locDue, telemetryBuffer, frame >>

(* the response of a getLocationsAtTime request arrives: fetchBatch        *)
(* continues after its await                                               *)
LocResponse(f, batch) ==
  /\ f \in locFetches
  /\ batch \in LocBatches(f.nowMs)
  /\ locFetches' = locFetches \ { f }
  /\ locationBuffer' = IF f.isMounted
                       THEN AfterLocBatch(locationBuffer, batch, f.nowMs)
                       ELSE locationBuffer
  /\ lastEvent' = "locResponse"
  /\ UNCHANGED << now, used, notCircuit, mapTransform, mapFor, activeDriverId,
                  lastFetchTime, locDue, telemetryBuffer, lastTelemetryFetchTime,
                  telFetches, telDue, frame >>

(* getCarData settles: fetchTelemetry continues after its await *)
TelResponse(f, out) ==
  /\ f \in telFetches
  /\ out \in TelBatches(f.nowMs)
  /\ telFetches' = telFetches \ { f }
  /\ telemetryBuffer' = IF f.isMounted
                        THEN AfterTelBatch(telemetryBuffer, out, f.nowMs)
                        ELSE telemetryBuffer
  /\ lastEvent' = "telResponse"
  /\ UNCHANGED << now, used, notCircuit, mapTransform, mapFor, activeDriverId,
                  locationBuffer, lastFetchTime, locFetches, locDue,
                  lastTelemetryFetchTime, telDue, frame >>

(* animate, the bracket search: the first i with points[i].date <=        *)
(* targetTime < points[i+1].date, 0 when there is none (idx = -1) or the   *)
(* buffer has fewer than 2 points                                          *)
BracketIdx(points, targetTime) ==
  LET hits == { i \in 1..(Len(points) - 1) :
                  points[i] <= targetTime /\ points[i + 1] > targetTime }
  IN IF hits = {} THEN 0 ELSE Min(hits)

(* an animation frame of LiveCircuit (requestAnimationFrame) *)
animate ==
  /\ Rendered(currentView, session, currentReplayTime)
  /\ frame' = [dId \in Drivers |-> BracketIdx(locationBuffer[dId], currentReplayTime)]
  /\ lastEvent' = "animate"
  /\ UNCHANGED << now, used, notCircuit, mapTransform, mapFor, activeDriverId,
                  locationBuffer, lastFetchTime, locFetches, locDue, telemetryBuffer,
                  lastTelemetryFetchTime, telFetches, telDue >>

----------------------------------------------------------------------------
(* what the callbacks of the race-control poll do not touch *)
notMessages == << apiVars, lcVars, tdVars, fnVars, session, initPc, isPlaying,
                  currentReplayTime, replayTimeRef, sessionStartTime, sessionEndTime,
                  isSessionLive, isAtLiveHead, playbackSpeed, loopCounterRef,
                  isFetchingRef, tickDue, appFetches, drivers, weather, requestedAt, seekHold >>

(* setInterval(fetchMsgs, 5000) fires: fetchMsgs runs up to its await.  The *)
(* callback belongs to the render that registered it and filters by that   *)
(* render's currentReplayTime, which is still the current one: any later   *)
(* change would have cleared this timer.                                   *)
MsgTimer ==
  /\ msgDue # NoTime /\ msgDue >= now
  /\ \A d \in Dues : msgDue <= d
  /\ used.wall + (msgDue - now) <= MaxWallMs
  /\ Cardinality(msgFetches) < MaxInFlight
  /\ now' = msgDue
  /\ used' = [used EXCEPT !.wall = @ + (msgDue - now)]
  /\ msgFetches' = msgFetches \cup { [at |-> msgDue, time |-> currentReplayTime] }
  /\ polledAt' = msgDue
  /\ msgDue' = msgDue + PollIntervalMs
  /\ lastEvent' = "msgTimer"
  /\ UNCHANGED << notMessages, messagesAt, playingSince >>

(* getRaceControlMessages resolves: fetchMsgs keeps the messages dated at   *)
(* or before its currentReplayTime and sets the feed, the track status,    *)
(* the DRS state and the retired drivers from them.                        *)
MsgResponse(f) ==
  /\ f \in msgFetches
  /\ msgFetches' = msgFetches \ { f }
  /\ messagesAt' = f.time
  /\ lastEvent' = "msgResponse"
  /\ UNCHANGED << now, used, notMessages, msgDue, playingSince, polledAt >>

----------------------------------------------------------------------------
(* what the handlers of TelemetryDashboard do not touch *)
notDashboard == << apiVars, lcVars, msgVars, fnVars, session, initPc, isPlaying,
                   currentReplayTime, replayTimeRef, sessionStartTime, sessionEndTime,
                   isSessionLive, isAtLiveHead, playbackSpeed, loopCounterRef,
                   isFetchingRef, tickDue, appFetches, drivers, weather, requestedAt, seekHold >>

(* A button of the driver selector: setSelectedDriverId, setTelemetry([]), *)
(* setDisplayPacket(null); the fetch-loop effect runs again when the       *)
(* driver changed.                                                         *)
SelectDriver(a) ==
  /\ TdRendered(currentView, session, currentReplayTime)
  /\ a \in Drivers
  /\ used.cmds < MaxCommands
  /\ used' = [used EXCEPT !.cmds = @ + 1]
  /\ selectedDriverId' = a
  /\ telemetry' = << >>
  /\ displayPacket' = NoPacket
  /\ IF a # selectedDriverId
     THEN TdFetchEffect(session, currentReplayTime, a, now)
     ELSE UNCHANGED << tdFetches, tdDue >>
  /\ lastEvent' = "driver"
  /\ UNCHANGED << now, notDashboard >>

(* setInterval(fetchTelemetry, 250) of TelemetryDashboard fires *)
TdTimer ==
  /\ Earliest(tdDue)
  /\ used.wall + (tdDue - now) <= MaxWallMs
  /\ now' = tdDue
  /\ used' = [used EXCEPT !.wall = @ + (tdDue - now)]
  /\ LET F == tdFetchTelemetry(session, currentReplayTime, selectedDriverId, tdFetches) IN
       /\ InFlightBounded(F)
       /\ tdFetches' = F
  /\ tdDue' = tdDue + TdFetchIntervalMs
  /\ lastEvent' = "tdTimer"
  /\ UNCHANGED << notDashboard, selectedDriverId, telemetry, displayPacket >>

(* getCarData settles: TelemetryDashboard.fetchTelemetry continues after   *)
(* its await; setTelemetry(data) makes the interpolation effect run.       *)
TdResponse(f, out) ==
  /\ f \in tdFetches
  /\ out \in TdBatches(f.time)
  /\ tdFetches' = tdFetches \ { f }
  /\ IF f.isMounted /\ ~out.throws /\ Len(out.data) > 0
     THEN /\ telemetry' = out.data
          /\ InterpolationEffect(out.data, currentReplayTime)
     ELSE UNCHANGED << telemetry, displayPacket >>
  /\ lastEvent' = "tdResponse"
  /\ UNCHANGED << now, used, notDashboard, selectedDriverId, tdDue >>

----------------------------------------------------------------------------
(* components/LiveCircuit: the interpolation of one animation frame.        *)
NoCoord == [absent |-> TRUE]     \* newCoords has no entry for the driver

(* LiveCircuit's lerp; a null reading counts as 0 in its arithmetic *)
circuitLerp(start, end, factor) ==
  FracAdd(Whole(ToNumber(start)),
          FracMul(Whole(ToNumber(end) - ToNumber(start)), factor))

(* Math.max(0, Math.min(1, f)) *)
Clamp01(f) ==
  IF FracLess(f, Whole(0)) THEN Whole(0)
  ELSE IF FracLess(Whole(1), f) THEN Whole(1) ELSE f

DatesOf(series) == [i \in DOMAIN series |-> series[i].date]

(* animate, "LOCATION INTERPOLATION", for the buffer pts of one driver:    *)
(* the entry of newCoords, NoCoord when the driver gets none               *)
animateLocation(pts, targetTime) ==
  IF Len(pts) < 2 THEN NoCoord
  ELSE LET idx == BracketIdx(DatesOf(pts), targetTime)
           last == pts[Len(pts)]
           xy == IF idx # 0
                 THEN LET p1 == pts[idx]
                          p2 == pts[idx + 1]
                          total == p2.date - p1.date
                          elapsed == targetTime - p1.date
                          factor == Clamp01(Frac(elapsed, total))
                      IN [x |-> circuitLerp(p1.x, p2.x, factor),
                          y |-> circuitLerp(p1.y, p2.y, factor)]
                 ELSE IF pts[1].date > targetTime
                      THEN [x |-> Whole(pts[1].x), y |-> Whole(pts[1].y)]
                 ELSE IF last.date < targetTime
                      THEN [x |-> Whole(last.x), y |-> Whole(last.y)]
                 ELSE [x |-> Whole(0), y |-> Whole(0)]
       IN IF xy.x.num # 0 /\ xy.y.num # 0 THEN xy ELSE NoCoord

NoSector     == 0                       \* currentSector is null
SectorStride == 5                       \* for (let i = 0; ...; i += 5)
Infinity     == [num |-> 1, den |-> 0]  \* let minDist = Infinity

FracAbs(a) == [num |-> Abs(a.num), den |-> a.den]

(* Math.abs(pt.x - activeDriverPos.x) + Math.abs(pt.y - activeDriverPos.y) *)
ManhattanDist(pt, pos) ==
  FracAdd(FracAbs(FracSub(Whole(pt.x), pos.x)), FracAbs(FracSub(Whole(pt.y), pos.y)))

(* a scan that also moves to a later point at the same distance *)
RECURSIVE ScanReferenceToLatest(_, _, _, _, _)
ScanReferenceToLatest(refs, pos, i, minDist, closestSector) ==
  IF i > Len(refs) THEN closestSector
  ELSE LET d == ManhattanDist(refs[i], pos) IN
         IF ~FracLess(minDist, d)
         THEN ScanReferenceToLatest(refs, pos, i + SectorStride, d, refs[i].sector)
         ELSE ScanReferenceToLatest(refs, pos, i + SectorStride, minDist, closestSector)

(* animate, the loop of "SECTOR DETECTION" from index i on (the first      *)
(* element of a sequence has index 1): closestSector when it ends          *)
RECURSIVE ScanReference(_, _, _, _, _)
ScanReference(refs, pos, i, minDist, closestSector) ==
  IF i > Len(refs) THEN closestSector
  ELSE LET d == ManhattanDist(refs[i], pos) IN
         IF FracLess(d, minDist)
         THEN ScanReference(refs, pos, i + SectorStride, d, refs[i].sector)
         ELSE ScanReference(refs, pos, i + SectorStride, minDist, closestSector)

(* animate, "SECTOR DETECTION": the value of currentSector afterwards,     *)
(* shown being its value before                                            *)
SectorDetection(activeDriverPos, followed, refs, shown) ==
  IF activeDriverPos # NoCoord /\ Len(refs) > 0
  THEN ScanReference(refs, activeDriverPos, 1, Infinity, 1)
  ELSE IF followed = NoDriver THEN NoSector ELSE shown

(* animate, "TELEMETRY INTERPOLATION", with a followed driver: the value   *)
(* of activeDriverTelemetry afterwards, shown being its value before       *)
animateTelemetry(tPoints, targetTime, shown) ==
  IF Len(tPoints) > 1
  THEN LET tIdx == BracketIdx(DatesOf(tPoints), targetTime) IN
         IF tIdx # 0
         THEN LET p1 == tPoints[tIdx]
                  p2 == tPoints[tIdx + 1]
                  total == p2.date - p1.date
                  elapsed == targetTime - p1.date
                  factor == Clamp01(Frac(elapsed, total))
              IN [speed |-> MathRound(circuitLerp(p1.speed, p2.speed, factor)),
                  rpm |-> MathRound(circuitLerp(p1.rpm, p2.rpm, factor)),
                  throttle |-> MathRound(circuitLerp(p1.throttle, p2.throttle, factor)),
                  brake |-> MathRound(circuitLerp(p1.brake, p2.brake, factor)),
                  gear |-> p1.gear]
         ELSE shown
  ELSE shown

----------------------------------------------------------------------------
(* The interpolators called on their own, on the buffers and target times  *)
(* below.                                                                  *)
MaxSamples  == 3                 \* samples of a buffer
SampleBase  == 1000              \* the date of the earliest sample of a buffer
SampleDates == { SampleBase, SampleBase + 10, SampleBase + 20 }
Targets     == { SampleBase - 5, SampleBase, SampleBase + 3, SampleBase + 10,
                 SampleBase + 15, SampleBase + 20, SampleBase + 25 }

Readings == { Reading(d, k) : d \in SampleDates, k \in { "slow", "fast", "blank" } }
Locations ==
  { [date |-> d, x |-> c[1], y |-> c[2]] :
      d \in SampleDates, c \in { << 100, 200 >>, << 300, -50 >>, << 0, 70 >> } }

NotCalled == [called |-> FALSE]
NothingReturned ==
  [packet |-> NotCalled, before |-> NotCalled, coords |-> NotCalled, shown |-> NoPacket,
   displayed |-> NotCalled, sector |-> NoSector]

(* no interpolator is called on its own *)
FnIdle ==
  /\ argData = << >>
  /\ argPoints = << >>
  /\ argTime = NoTime
  /\ argRefs = << >>
  /\ argDriver = NoDriver
  /\ returned = NothingReturned

(* a caller calls getInterpolatedData(data, time) *)
CallGetInterpolatedData ==
  /\ argTime # NoTime
  /\ \E v \in Vibrations :
       returned' = [returned EXCEPT !.before = returned.packet,
                                    !.packet = getInterpolatedData(argData, argTime, v)]
  /\ UNCHANGED << now, appVars, apiVars, lcVars, tdVars, msgVars, argData, argPoints, argTime,
                  argRefs, argDriver >>

(* an animation frame runs with the location buffer argPoints of a driver, *)
(* the telemetry buffer argData of the followed driver and currentTime     *)
(* argTime                                                                 *)
CallAnimate ==
  /\ argTime # NoTime
  /\ LET xy == animateLocation(argPoints, argTime)
         activeDriverPos == IF argDriver # NoDriver THEN xy ELSE NoCoord
     IN returned' = [returned EXCEPT
                       !.coords = xy,
                       !.sector = SectorDetection(activeDriverPos, argDriver, argRefs,
                                                  returned.sector),
                       !.shown = animateTelemetry(argData, argTime, returned.shown)]
  /\ UNCHANGED << now, appVars, apiVars, lcVars, tdVars, msgVars, argData, argPoints, argTime,
                  argRefs, argDriver >>

(* TelemetryDashboard renders with the series argData and currentTime      *)
(* argTime: its interpolation effect runs, and the gauges show             *)
(* displayPacket                                                           *)
RunInterpolationEffect ==
  /\ argTime # NoTime
  /\ InterpolationEffect(argData, argTime)
  /\ returned' = [returned EXCEPT !.displayed = displayPacket']
  /\ UNCHANGED << now, appVars, apiVars, lcVars, msgVars, selectedDriverId, telemetry, tdFetches,
                  tdDue, argData, argPoints, argTime, argRefs, argDriver >>

----------------------------------------------------------------------------
(* The state after App is constructed (its useState / useRef initialisers) *)
Constructed ==
  /\ now = NowBase
  /\ session = NoSession
  /\ initPc = "none"
  /\ isPlaying = FALSE
  /\ currentReplayTime = NoTime
  /\ replayTimeRef = NoTime
  /\ sessionStartTime = NoTime
  /\ sessionEndTime = NoTime
  /\ isSessionLive = FALSE
  /\ isAtLiveHead = FALSE
  /\ playbackSpeed = 1
  /\ loopCounterRef = 0
  /\ isFetchingRef = FALSE
  /\ tickDue = NoTime
  /\ appFetches = {}
  /\ drivers = NoTime
  /\ weather = NoTime
  /\ requestedAt = NoTime
  /\ used = [selects |-> 0, cmds |-> 0, jumps |-> 0, wall |-> 0]
  /\ seekHold = NoTime
  /\ lastEvent = "none"
  /\ ApiInit
  /\ LcInit
  /\ TdAbsent
  /\ MsgAbsent

Init == Constructed /\ FnIdle

Next ==
  \/ \E k \in SessionKeys : SelectSession(k)
  \/ InitSetTimes
  \/ InitFinish
  \/ \E t \in SeekTargets : handleSeek(t)
  \/ handleSeekCommit
  \/ handleGoLive
  \/ TogglePlay
  \/ \E n \in PLAYBACK_SPEEDS : SetPlaybackSpeed(n)
  \/ Tick
  \/ \E d \in IdleWaits : IdleWait(d)
  \/ \E f \in appFetches : AppFetchResponse(f)
  \/ FastForward

Spec == Init /\ [][Next]_vars

(* the service module alone, its callers calling at any time *)
InitApi == Init

NextApi ==
  \/ CallFetchAPI
  \/ \E id \in DOMAIN apiCalls : ThrottleEnds(id)
  \/ \E id \in DOMAIN apiCalls, r \in Responses, lat \in Latencies, j \in Jitters :
       FetchEnds(id, r, lat, j)
  \/ \E id \in DOMAIN apiCalls : BackoffEnds(id)

SpecApi == InitApi /\ [][NextApi]_vars

(* The circuit view while a session replays untouched: the session loads,  *)
(* the user opens the circuit view, the map is generated, and the playback *)
(* loop, the location loop and the animation frames run.  Nobody is        *)
(* followed: the telemetry timer fires and fetchTelemetry returns at once. *)
NextCircuit ==
  \/ \E k \in SessionKeys : SelectSession(k)
  \/ InitSetTimes
  \/ InitFinish
  \/ \E v \in { "dashboard", "circuit" } : SetCurrentView(v)
  \/ MapLoaded
  \/ Tick
  \/ \E f \in appFetches : AppFetchResponse(f)
  \/ LocTimer
  \/ TelTimer
  \/ \E f \in locFetches : \E batch \in LocBatches(f.nowMs) : LocResponse(f, batch)
  \/ animate

SpecCircuit == Init /\ [][NextCircuit]_vars

(* The circuit view with a followed driver, before the map is generated:   *)
(* the playback loop, the telemetry loop and the animation frames run; the *)
(* location timer fires and fetchBatch returns at once.                    *)
NextFollow ==
  \/ \E k \in SessionKeys : SelectSession(k)
  \/ InitSetTimes
  \/ InitFinish
  \/ \E v \in { "dashboard", "circuit" } : SetCurrentView(v)
  \/ \E a \in Drivers \cup { NoDriver } : FollowDriver(a)
  \/ Tick
  \/ \E f \in appFetches : AppFetchResponse(f)
  \/ LocTimer
  \/ TelTimer
  \/ \E f \in telFetches : \E out \in TelBatches(f.nowMs) : TelResponse(f, out)
  \/ animate

SpecFollow == Init /\ [][NextFollow]_vars

(* The telemetry view while a session replays: the session loads, the user *)
(* opens the telemetry view and picks drivers, and the playback loop and   *)
(* the fetch loop of TelemetryDashboard run.                               *)
NextDashboard ==
  \/ \E k \in SessionKeys : SelectSession(k)
  \/ InitSetTimes
  \/ InitFinish
  \/ \E v \in { "dashboard", "telemetry" } : SetCurrentView(v)
  \/ \E a \in Drivers : SelectDriver(a)
  \/ Tick
  \/ \E f \in appFetches : AppFetchResponse(f)
  \/ TdTimer
  \/ \E f \in tdFetches : \E out \in TdBatches(f.time) : TdResponse(f, out)

SpecDashboard == Init /\ [][NextDashboard]_vars

(* The interpolators alone: a buffer of up to MaxSamples samples, in any   *)
(* order, and a target time; either the telemetry series or the location   *)
(* buffer is filled.                                                       *)
InitInterp ==
  /\ Constructed
  /\ argTime \in Targets
  /\ \/ argData \in SeqsUpTo(Readings, MaxSamples) /\ argPoints = << >>
     \/ argData = << >> /\ argPoints \in SeqsUpTo(Locations, MaxSamples)
  /\ argRefs = << >>
  /\ argDriver = NoDriver
  /\ returned = NothingReturned

NextInterp ==
  \/ CallGetInterpolatedData
  \/ CallAnimate
  \/ RunInterpolationEffect

SpecInterp == InitInterp /\ [][NextInterp]_vars

(* The sector lookup of animate alone: the location buffer of one driver,  *)
(* followed or not, and a reference lap of no, one or RefLapLen points.    *)
RefLapLen     == 6
SectorTargets == { SampleBase + 15, SampleBase + 25 }
RefPoints ==
  { [x |-> 100, y |-> 200, sector |-> 1], [x |-> 300, y |-> -50, sector |-> 2],
    [x |-> 200, y |-> 75, sector |-> 3] }
RefLaps == UNION { [1..k -> RefPoints] : k \in { 0, 1, RefLapLen } }

InitSector ==
  /\ Constructed
  /\ argTime \in SectorTargets
  /\ argData = << >>
  /\ argPoints \in SeqsUpTo(Locations, 2)
  /\ argRefs \in RefLaps
  /\ argDriver \in { NoDriver, Min(Drivers) }
  /\ returned = NothingReturned

NextSector == CallAnimate

SpecSector == InitSector /\ [][NextSector]_vars

(* The state in which the first session of the list has loaded and plays   *)
(* and the user has just opened the circuit view: LiveCircuit is mounted,  *)
(* its map is being generated, its two timers are registered.              *)
FirstSession == Min(SessionKeys)
CircuitOpened ==
  /\ now = NowBase
  /\ session = FirstSession
  /\ initPc = "done"
  /\ isPlaying = TRUE
  /\ currentReplayTime = SessionStart(FirstSession)
  /\ replayTimeRef = SessionStart(FirstSession)
  /\ sessionStartTime = SessionStart(FirstSession)
  /\ sessionEndTime = SessionEnd(FirstSession)
  /\ isSessionLive = TRUE
  /\ isAtLiveHead = FALSE
  /\ playbackSpeed = 1
  /\ loopCounterRef = 0
  /\ isFetchingRef = FALSE
  /\ tickDue = NowBase + updateIntervalMs
  /\ appFetches = {}
  /\ drivers = SessionStart(FirstSession)
  /\ weather = NoTime
  /\ requestedAt = NoTime
  /\ seekHold = NoTime
  /\ lastEvent = "view"
  /\ ApiInit
  /\ currentView = "circuit"
  /\ mapTransform = NoSession
  /\ mapFor = FirstSession
  /\ activeDriverId = NoDriver
  /\ locationBuffer = EmptyBuffer
  /\ lastFetchTime = 0
  /\ locFetches = {}
  /\ locDue = NowBase + LocFetchIntervalMs
  /\ telemetryBuffer = << >>
  /\ lastTelemetryFetchTime = 0
  /\ telFetches = {}
  /\ telDue = NowBase + TelFetchIntervalMs
  /\ frame = NoFrame
  /\ TdAbsent
  /\ msgDue = NowBase + PollIntervalMs
  /\ msgFetches = {}
  /\ messagesAt = NoTime
  /\ playingSince = NowBase
  /\ polledAt = NoTime
  /\ FnIdle

(* From there: the user selects another session while the playback loop,  *)
(* the location loop and the animation frames run.  Nobody is followed.    *)
InitSwitch ==
  /\ CircuitOpened
  /\ used = [selects |-> 0, cmds |-> 0, jumps |-> 0, wall |-> 0]

NextSwitch ==
  \/ \E k \in SessionKeys : SelectSession(k)
  \/ InitSetTimes
  \/ InitFinish
  \/ MapLoaded
  \/ Tick
  \/ \E f \in appFetches : AppFetchResponse(f)
  \/ LocTimer
  \/ TelTimer
  \/ \E f \in locFetches : \E batch \in LocBatches(f.nowMs) : LocResponse(f, batch)
  \/ animate

SpecSwitch == InitSwitch /\ [][NextSwitch]_vars

(* From there as well: the user moves the slider and resumes while the     *)
(* playback loop and the location loop run.  Nobody is followed, and the   *)
(* location requests are answered with no records.                         *)
SeekHorizonMs == 2100
InitSeek ==
  /\ CircuitOpened
  /\ used = [selects |-> 0, cmds |-> 0, jumps |-> 0, wall |-> MaxWallMs - SeekHorizonMs]

NextSeek ==
  \/ MapLoaded
  \/ \E t \in SeekTargets : handleSeek(t)
  \/ TogglePlay
  \/ Tick
  \/ \E f \in appFetches : AppFetchResponse(f)
  \/ LocTimer
  \/ TelTimer
  \/ \E f \in locFetches : LocResponse(f, << >>)

SpecSeek == InitSeek /\ [][NextSeek]_vars

(* The state in which the first session of the list has loaded and plays,  *)
(* on the dashboard view: the playback loop and the race-control poll are  *)
(* registered.                                                             *)
SessionPlaying ==
  /\ now = NowBase
  /\ session = FirstSession
  /\ initPc = "done"
  /\ isPlaying = TRUE
  /\ currentReplayTime = SessionStart(FirstSession)
  /\ replayTimeRef = SessionStart(FirstSession)
  /\ sessionStartTime = SessionStart(FirstSession)
  /\ sessionEndTime = SessionEnd(FirstSession)
  /\ isSessionLive = TRUE
  /\ isAtLiveHead = FALSE
  /\ playbackSpeed = 1
  /\ loopCounterRef = 0
  /\ isFetchingRef = FALSE
  /\ tickDue = NowBase + updateIntervalMs
  /\ appFetches = {}
  /\ drivers = SessionStart(FirstSession)
  /\ weather = NoTime
  /\ requestedAt = NoTime
  /\ seekHold = NoTime
  /\ lastEvent = "init"
  /\ ApiInit
  /\ LcInit
  /\ TdAbsent
  /\ msgDue = NowBase + PollIntervalMs
  /\ msgFetches = {}
  /\ messagesAt = NoTime
  /\ playingSince = NowBase
  /\ polledAt = NoTime
  /\ FnIdle

(* From there, for PollHorizonMs of wall clock: the playback loop and the  *)
(* race-control poll run, and the user pauses and resumes.                 *)
PollHorizonMs == 5200
InitMessages ==
  /\ SessionPlaying
  /\ used = [selects |-> 0, cmds |-> 0, jumps |-> 0, wall |-> MaxWallMs - PollHorizonMs]

NextMessages ==
  \/ TogglePlay
  \/ Tick
  \/ \E f \in appFetches : AppFetchResponse(f)
  \/ MsgTimer
  \/ \E f \in msgFetches : MsgResponse(f)

SpecMessages == InitMessages /\ [][NextMessages]_vars

(* The playback loop of a loaded session over two fetch ticks, at the rate *)
(* the user picks.                                                         *)
WindowHorizonMs == 2100
InitWindow ==
  /\ SessionPlaying
  /\ used = [selects |-> 0, cmds |-> 0, jumps |-> 0, wall |-> MaxWallMs - WindowHorizonMs]

NextWindow ==
  \/ \E n \in PLAYBACK_SPEEDS : SetPlaybackSpeed(n)
  \/ Tick
  \/ \E f \in appFetches : AppFetchResponse(f)

SpecWindow == InitWindow /\ [][NextWindow]_vars

(* The playback loop of a loaded session until past its 300th tick, the    *)
(* first whose request cycle asks for the weather.                         *)
WeatherHorizonMs == 30200
InitWeather ==
  /\ SessionPlaying
  /\ used = [selects |-> 0, cmds |-> 0, jumps |-> 0, wall |-> MaxWallMs - WeatherHorizonMs]

NextWeather ==
  \/ Tick
  \/ \E f \in appFetches : AppFetchResponse(f)

SpecWeather == InitWeather /\ [][NextWeather]_vars

----------------------------------------------------------------------------
(* C1: after a seek to t and until the next play or go-live (or a newly     *)
(* selected session setting its own start time), the virtual time, state    *)
(* and ref, is still t.                                                     *)
C1_SeekHoldsTime ==
  seekHold # NoTime => (currentReplayTime = seekHold /\ replayTimeRef = seekHold)

(* C2: whenever isAtLiveHead is true the playback rate is 1. *)
C2_RateOneAtLiveHead ==
  isAtLiveHead => playbackSpeed = 1

(* C3: isAtLiveHead is never left stale: whenever it is true while the      *)
(* virtual time is 60 s or more from the wall clock, something that will    *)
(* recompute it without a user command is under way: the playback loop is   *)
(* registered or the session is still initialising.                         *)
C3_LiveHeadNeverStale ==
  (/\ isAtLiveHead /\ currentReplayTime # NoTime
   /\ Abs(now - currentReplayTime) >= LiveHeadThresholdMs)
    => (tickDue # NoTime \/ initPc \in { "drivers", "grid" })

(* C5: a request cycle whose time window was superseded by a later seek or *)
(* session change never writes its response: when the response of such a   *)
(* cycle arrives, the driver list stays as it was.                          *)
C5_SupersededNeverWrites ==
  [][ \A f \in appFetches :
        (lastEvent' = "response" /\ f \notin appFetches' /\ f.superseded)
          => drivers' = drivers ]_vars

(* C9: every run of the tick callback on a loaded clock advances the        *)
(* virtual time, state and ref, by at least 100 ms times the rate, whatever *)
(* request cycles are pending, aborted or superseded.                       *)
C9_TickNeverBlocked ==
  [][ (lastEvent' = "tick" /\ replayTimeRef # NoTime)
        => /\ replayTimeRef' >= replayTimeRef + playbackSpeed * updateIntervalMs
           /\ currentReplayTime' = replayTimeRef' ]_vars

(* C9 witness: a tick has just advanced the clock by one step beyond the    *)
(* time of a request cycle that is still pending.                           *)
C9_Witness ==
  /\ isFetchingRef
  /\ lastEvent = "tick"
  /\ \E f \in appFetches :
       /\ f.kind = "tick" /\ ~f.aborted
       /\ replayTimeRef = f.time + playbackSpeed * updateIntervalMs

(* C6: any two outbound requests of fetchAPI start at least                 *)
(* MIN_REQUEST_INTERVAL apart, whatever the interleaving of the calls:      *)
(* the last two fetch() calls are never closer than that.                   *)
C6_RequestsSpaced ==
  Len(requestLog) = 2 => requestLog[2] - requestLog[1] >= MIN_REQUEST_INTERVAL

(* how far a call is from settling: each step of a call lowers it *)
Rank(c) ==
  CASE c.pc = "done"     -> 0
    [] c.pc = "backoff"  -> 4 * c.retries + 1
    [] c.pc = "fetching" -> 4 * c.retries + 2
    [] c.pc = "throttle" -> 4 * c.retries + 3
    [] OTHER             -> 4 * c.retries + 4

(* C7: on 429 fetchAPI retries with a wait that grows on every retry, makes *)
(* at most 4 attempts, resolves to the empty result when the last attempt   *)
(* is rate limited too, and every call terminates (each of its steps lowers *)
(* a rank bounded below) and settles to data or to the empty result, never  *)
(* to a rejection, whatever the responses.                                  *)
C7_RetryBoundedNeverRejects ==
  [][ \A id \in DOMAIN apiCalls' :
        LET c == apiCalls'[id] IN
          /\ c.attempts <= DefaultRetries + 1
          /\ c.pc = "done" => c.result \in { "data", "empty" }
          /\ c.refused = 1 => (c.attempts = DefaultRetries + 1 /\ c.result = "empty")
          /\ id \in DOMAIN apiCalls =>
               LET b == apiCalls[id] IN
                 /\ c # b => Rank(c) < Rank(b)
                 /\ (c.waits > b.waits /\ b.waits > 0) => c.lastWait > b.lastWait
    ]_vars

C7_Witness ==
  \E id \in DOMAIN apiCalls :
    /\ apiCalls[id].pc = "done"
    /\ apiCalls[id].attempts = DefaultRetries + 1
    /\ apiCalls[id].waits = DefaultRetries
    /\ apiCalls[id].refused = 1
    /\ apiCalls[id].result = "empty"

(* C4: at most one fetch per channel is in flight: the tick cycles of the  *)
(* playback loop, the getLocationsAtTime requests of the location loop and *)
(* the getCarData requests of the telemetry loop (of the running effect    *)
(* instance) are never two at once.                                        *)
C4_OneFetchPerChannel ==
  /\ Cardinality({ f \in appFetches : f.kind = "tick" /\ ~f.aborted }) <= 1
  /\ Cardinality(Mounted(locFetches)) <= 1
  /\ Cardinality(Mounted(telFetches)) <= 1

(* C8: while playing, a fetch timer that fires with no request of its      *)
(* channel pending issues one, whatever the rate multiplier and however    *)
(* far the virtual time moved since the previous request.                  *)
C8_FetchTickIssuesRequest ==
  [][ /\ (/\ lastEvent' = "locTimer"
          /\ isPlaying /\ mapTransform # NoSession /\ locFetches = {})
         => locFetches' # {}
      /\ (/\ lastEvent' = "telTimer"
          /\ isPlaying /\ activeDriverId # NoDriver /\ telFetches = {})
         => telFetches' # {}
      /\ (/\ lastEvent' = "tick"
          /\ replayTimeRef # NoTime /\ ~isFetchingRef
          /\ loopCounterRef' % FetchEveryTicks = 0)
         => isFetchingRef'
    ]_vars

StrictlyIncreasing(points) ==
  \A i \in 1..(Len(points) - 1) : points[i] < points[i + 1]

(* C10: every animation frame of LiveCircuit reads location buffers and a  *)
(* telemetry buffer that are in strictly increasing timestamp order.       *)
C10_FrameSeesSortedBuffers ==
  [][ lastEvent' = "animate" =>
        /\ \A dId \in Drivers : StrictlyIncreasing(locationBuffer[dId])
        /\ StrictlyIncreasing(telemetryBuffer) ]_vars

NoDuplicateDates(dates) ==
  \A i, j \in DOMAIN dates : i # j => dates[i] # dates[j]

(* C11: no buffer an interpolator reads holds two samples with the same    *)
(* timestamp: the location buffer of every driver and the telemetry buffer *)
(* of LiveCircuit, and the telemetry series of TelemetryDashboard.         *)
C11_NoDuplicateTimestamps ==
  /\ \A dId \in Drivers : NoDuplicateDates(locationBuffer[dId])
  /\ NoDuplicateDates(telemetryBuffer)
  /\ NoDuplicateDates(DatesOf(telemetry))

(* the eviction with cutoff T took before to after: nothing older than T  *)
(* is left, and nothing at or after T that was there is gone               *)
EvictedAt(before, after, T) ==
  /\ \A i \in DOMAIN after : after[i] >= T
  /\ \A i \in DOMAIN before : before[i] >= T => Contains(after, before[i])

(* C12: the eviction step of a fetch cycle that ran its insert, sort and   *)
(* evict, with cutoff T = clock time - retention (2 s location, 3 s        *)
(* telemetry), leaves no sample older than T and removes no sample with    *)
(* timestamp >= T that was in the buffer before.                           *)
C12_EvictionMonotone ==
  [][ /\ \A f \in locFetches : \A batch \in LocBatches(f.nowMs) :
           (/\ lastEvent' = "locResponse" /\ f \notin locFetches' /\ f.isMounted
            /\ ~InsertFrom(locationBuffer, batch, 1).thrown
            /\ locationBuffer' = AfterLocBatch(locationBuffer, batch, f.nowMs))
             => \A dId \in Drivers :
                  EvictedAt(locationBuffer[dId], locationBuffer'[dId],
                            f.nowMs - LocRetentionMs)
      /\ \A f \in telFetches : \A out \in TelBatches(f.nowMs) :
           (/\ lastEvent' = "telResponse" /\ f \notin telFetches' /\ f.isMounted
            /\ ~out.throws
            /\ telemetryBuffer' = AfterTelBatch(telemetryBuffer, out, f.nowMs))
             => EvictedAt(telemetryBuffer, telemetryBuffer', f.nowMs - TelRetentionMs)
    ]_vars

(* C13: when the selected session or the followed driver changes, the     *)
(* buffers of the previous selection are discarded wholesale: right after  *)
(* a session change both buffers of LiveCircuit are empty, right after a   *)
(* change of the followed driver the telemetry buffer is empty, and the    *)
(* response of a request made for the previous selection writes nothing.   *)
C13_ChangeDiscardsBuffers ==
  [][ /\ (lastEvent' = "select" /\ session # NoSession /\ session' # session)
           => (locationBuffer' = EmptyBuffer /\ telemetryBuffer' = << >>)
      /\ activeDriverId' # activeDriverId => telemetryBuffer' = << >>
      /\ \A f \in locFetches :
           (lastEvent' = "locResponse" /\ f \notin locFetches' /\ ~f.isMounted)
             => locationBuffer' = locationBuffer
      /\ \A f \in telFetches :
           (lastEvent' = "telResponse" /\ f \notin telFetches' /\ ~f.isMounted)
             => telemetryBuffer' = telemetryBuffer
    ]_vars

(* a buffer in timestamp order *)
SortedByDate(series) ==
  \A i, j \in DOMAIN series : i < j => series[i].date <= series[j].date

(* the packet shows the readings of the sample, unchanged *)
SameReadings(packet, sample) ==
  /\ packet # NoPacket
  /\ packet.speed = sample.speed /\ packet.rpm = sample.rpm
  /\ packet.throttle = sample.throttle /\ packet.brake = sample.brake
  /\ packet.gear = sample.gear /\ packet.drs = sample.drs

(* the frame shows the driver at the position of the sample, unchanged *)
SameCoords(coords, sample) ==
  /\ coords # NoCoord
  /\ coords.x = Whole(sample.x) /\ coords.y = Whole(sample.y)

(* samples whose coordinates are both non-zero, the only ones animate can  *)
(* ever show: a zero coordinate is the feed's "no position" marker         *)
Positioned(pts) ==
  \A i \in DOMAIN pts : pts[i].x # 0 /\ pts[i].y # 0

(* C14: no extrapolation.  For a sorted buffer of at least 2 samples, a    *)
(* target at or after the last sample's timestamp yields the last sample's *)
(* values and a target before the first sample's timestamp the first       *)
(* sample's values, from getInterpolatedData and from the location         *)
(* interpolation of animate (stated for samples that carry a position).    *)
C14_NoExtrapolation ==
  /\ (returned.packet # NotCalled /\ Len(argData) >= 2 /\ SortedByDate(argData))
       => /\ argTime >= argData[Len(argData)].date
               => SameReadings(returned.packet, argData[Len(argData)])
          /\ argTime < argData[1].date
               => SameReadings(returned.packet, argData[1])
  /\ (/\ returned.coords # NotCalled /\ Len(argPoints) >= 2
      /\ SortedByDate(argPoints) /\ Positioned(argPoints))
       => /\ argTime >= argPoints[Len(argPoints)].date
               => SameCoords(returned.coords, argPoints[Len(argPoints)])
          /\ argTime < argPoints[1].date
               => SameCoords(returned.coords, argPoints[1])

(* samples that carry every continuous telemetry reading *)
Measured(series) ==
  \A i \in DOMAIN series : series[i].speed # NoReading

(* prev + (next - prev) * (target - t1) / (t2 - t1), as one fraction *)
Linear(prev, next, t1, t2, target) ==
  Frac(prev * (t2 - t1) + (next - prev) * (target - t1), t2 - t1)

(* the same, rounded to the nearest integer (halves go up) *)
LinearRounded(prev, next, t1, t2, target) ==
  (2 * (prev * (t2 - t1) + (next - prev) * (target - t1)) + (t2 - t1))
    \div (2 * (t2 - t1))

(* v is neither below both of a, b nor above both *)
Between(v, a, b) ==
  /\ ~(FracLess(v, Whole(a)) /\ FracLess(v, Whole(b)))
  /\ ~(FracLess(Whole(a), v) /\ FracLess(Whole(b), v))

ContinuousFields == { "speed", "rpm", "throttle", "brake" }

(* the packet's continuous fields are the rounded linear interpolation of  *)
(* the adjacent samples prev and next at target                            *)
LinearPacket(packet, prev, next, target) ==
  /\ packet # NoPacket
  /\ \A f \in ContinuousFields :
       /\ packet[f] = LinearRounded(prev[f], next[f], prev.date, next.date, target)
       /\ Between(Whole(packet[f]), prev[f], next[f])
       /\ target = prev.date => packet[f] = prev[f]

(* C15: bracketed interpolation.  For adjacent samples prev, next of a     *)
(* sorted buffer with prev.date <= target < next.date, speed, rpm,         *)
(* throttle and brake of the packet are prev + (next - prev) * factor      *)
(* rounded to an integer, and x, y of the coordinates the same unrounded,  *)
(* with factor = (target - prev.date) / (next.date - prev.date); so they   *)
(* lie between prev's and next's values and equal prev's at prev.date.     *)
C15_BracketedInterpolation ==
  /\ (returned.packet # NotCalled /\ SortedByDate(argData) /\ Measured(argData))
       => \A i \in 1..(Len(argData) - 1) :
            (argData[i].date <= argTime /\ argTime < argData[i + 1].date)
              => LinearPacket(returned.packet, argData[i], argData[i + 1], argTime)
  /\ (returned.shown # NoPacket /\ SortedByDate(argData) /\ Measured(argData))
       => \A i \in 1..(Len(argData) - 1) :
            (argData[i].date <= argTime /\ argTime < argData[i + 1].date)
              => LinearPacket(returned.shown, argData[i], argData[i + 1], argTime)
  /\ (returned.coords # NotCalled /\ SortedByDate(argPoints) /\ Positioned(argPoints))
       => \A i \in 1..(Len(argPoints) - 1) :
            (argPoints[i].date <= argTime /\ argTime < argPoints[i + 1].date)
              => LET prev == argPoints[i]
                     next == argPoints[i + 1]
                 IN /\ returned.coords # NoCoord
                    /\ returned.coords.x = Linear(prev.x, next.x, prev.date, next.date, argTime)
                    /\ returned.coords.y = Linear(prev.y, next.y, prev.date, next.date, argTime)
                    /\ Between(returned.coords.x, prev.x, next.x)
                    /\ Between(returned.coords.y, prev.y, next.y)
                    /\ argTime = prev.date
                         => returned.coords = [x |-> Whole(prev.x), y |-> Whole(prev.y)]

(* C16: discrete fields step, never ramp.  For adjacent samples prev, next *)
(* of a sorted buffer with prev.date <= target < next.date, gear and DRS   *)
(* of the packet of getInterpolatedData, and the gear animate shows, are   *)
(* exactly prev's.                                                         *)
C16_DiscreteFieldsStep ==
  \A i \in 1..(Len(argData) - 1) :
    (/\ SortedByDate(argData)
     /\ argData[i].date <= argTime /\ argTime < argData[i + 1].date)
      => /\ returned.packet # NotCalled
              => /\ returned.packet # NoPacket
                 /\ returned.packet.gear = argData[i].gear
                 /\ returned.packet.drs = argData[i].drs
         /\ returned.shown # NoPacket
              => returned.shown.gear = argData[i].gear

(* a packet and a shown telemetry for a target strictly inside a bracket   *)
(* whose samples differ in gear and DRS: 3 to 4 and 0 to 12 at factor 1/2  *)
C16_Witness ==
  /\ Len(argData) = 2
  /\ argData[1].date = SampleBase + 10 /\ argData[2].date = SampleBase + 20
  /\ argTime = SampleBase + 15
  /\ argData[1].gear = 3 /\ argData[2].gear = 4
  /\ argData[1].drs = 0 /\ argData[2].drs = 12
  /\ returned.packet # NotCalled /\ returned.packet # NoPacket
  /\ returned.packet.gear = 3 /\ returned.packet.drs = 0
  /\ returned.shown # NoPacket /\ returned.shown.gear = 3

(* C17: the timestamp of every sample getInterpolatedData returns is the   *)
(* requested target time, in every case, never a source sample's.          *)
C17_TimestampIsTarget ==
  (returned.packet # NotCalled /\ returned.packet # NoPacket)
    => returned.packet.date = argTime

(* C18: getInterpolatedData is a pure function of (buffer, target time): a *)
(* call leaves the buffer, the target and the component's state as they    *)
(* were, and a second call with the same buffer and target returns a       *)
(* sample equal to the first in every field.                               *)
C18_InterpolatorPure ==
  [][ (returned'.packet # returned.packet \/ returned'.before # returned.before)
        => /\ UNCHANGED << argData, argPoints, argTime, argRefs, argDriver, tdVars, lcVars >>
           /\ returned.packet # NotCalled => returned'.packet = returned.packet ]_vars

(* the packet is the sample itself, every field as it was *)
Unmodified(packet, sample) ==
  SameReadings(packet, sample) /\ packet.date = sample.date

(* C19: insufficient data is not an error.  With an empty buffer the       *)
(* interpolation yields no data; with exactly one sample it yields that    *)
(* sample unmodified when the sample's timestamp is at or before the       *)
(* target and no data otherwise: from getInterpolatedData, for the packet  *)
(* the gauges display and for the coordinates the map displays.            *)
C19_InsufficientData ==
  /\ returned.packet # NotCalled
       => /\ Len(argData) = 0 => returned.packet = NoPacket
          /\ Len(argData) = 1
               => IF argData[1].date <= argTime
                  THEN Unmodified(returned.packet, argData[1])
                  ELSE returned.packet = NoPacket
  /\ returned.displayed # NotCalled
       => /\ Len(argData) = 0 => returned.displayed = NoPacket
          /\ Len(argData) = 1
               => IF argData[1].date <= argTime
                  THEN Unmodified(returned.displayed, argData[1])
                  ELSE returned.displayed = NoPacket
  /\ returned.coords # NotCalled
       => /\ Len(argPoints) = 0 => returned.coords = NoCoord
          /\ (Len(argPoints) = 1 /\ Positioned(argPoints))
               => IF argPoints[1].date <= argTime
                  THEN SameCoords(returned.coords, argPoints[1])
                  ELSE returned.coords = NoCoord

(* i is the sample the target falls after: at or before the target, with   *)
(* every later sample after the target                                     *)
PrevAt(series, i, target) ==
  /\ i \in DOMAIN series
  /\ series[i].date <= target
  /\ \A j \in DOMAIN series : j > i => series[j].date > target

(* (next.speed - prev.speed) km/h over (next.date - prev.date) ms, in g:   *)
(* delta speed / 3.6 / (delta time / 1000) / 9.81, a missing speed being 0 *)
RawBracketG(prev, next) ==
  Frac((ToNumber(next.speed) - ToNumber(prev.speed)) * 10 * 1000 * 100,
       36 * (next.date - prev.date) * 981)

(* C20: G-force zero-guard.  The gForce of every packet getInterpolatedData *)
(* returns is a finite number; it is exactly 0 when the two bracket        *)
(* samples have the same timestamp (and when there is no bracket), and     *)
(* otherwise it is the difference of the two raw bracket samples' speeds   *)
(* over the difference of their timestamps, converted from km/h to m/s and *)
(* divided by 9.81.                                                        *)
C20_GForceZeroGuard ==
  (returned.packet # NotCalled /\ returned.packet # NoPacket)
    => /\ returned.packet.gForce.den > 0
       /\ \A i \in DOMAIN argData :
            PrevAt(argData, i, argTime)
              => IF i = Len(argData) \/ argData[i + 1].date = argData[i].date
                 THEN returned.packet.gForce = Whole(0)
                 ELSE returned.packet.gForce = RawBracketG(argData[i], argData[i + 1])
       /\ (\A i \in DOMAIN argData : argData[i].date > argTime)
            => returned.packet.gForce = Whole(0)

(* a packet for a target inside the bracket of a sample at 100 km/h and    *)
(* one at 172 km/h 10 ms later: 72 / 3.6 / 0.01 / 9.81 g, while the speed   *)
(* shown is the interpolated 122 km/h                                      *)
C20_Witness ==
  /\ returned.packet # NotCalled /\ returned.packet # NoPacket
  /\ Len(argData) = 2
  /\ argData[1].date = SampleBase /\ argData[2].date = SampleBase + 10
  /\ argData[1].speed = 100 /\ argData[2].speed = 172
  /\ argTime = SampleBase + 3
  /\ returned.packet.gForce = Frac(200000, 981)
  /\ returned.packet.speed = 122

(* C21: seek leaves the rate multiplier unchanged.  A seek keeps the rate   *)
(* that was set before it; the play that follows keeps the rate and the    *)
(* time t of the seek; and the first tick after it advances the clock from *)
(* exactly t by 100 ms times that rate.                                    *)
C21_SeekKeepsRate ==
  [][ /\ lastEvent' = "seek" => playbackSpeed' = playbackSpeed
      /\ (lastEvent' = "play" /\ seekHold # NoTime)
           => (playbackSpeed' = playbackSpeed /\ replayTimeRef' = seekHold)
      /\ (lastEvent = "play" /\ lastEvent' = "tick" /\ replayTimeRef # NoTime)
           => replayTimeRef' = replayTimeRef + playbackSpeed * updateIntervalMs
    ]_vars

(* C22: go-live, which only ever runs with a session loaded, sets the      *)
(* virtual time (state and ref) to the wall clock minus 30 s, the rate to  *)
(* 1 and isPlaying to true, and the live-status evaluation that follows    *)
(* yields isAtLiveHead = true.                                             *)
C22_GoLiveEntersLiveHead ==
  [][ lastEvent' = "golive"
        => /\ session # NoSession /\ session' = session
           /\ currentReplayTime' = now' - GoLiveLagMs
           /\ replayTimeRef' = now' - GoLiveLagMs
           /\ playbackSpeed' = 1
           /\ isPlaying'
           /\ isAtLiveHead' ]_vars

(* go-live has just run: the replay has left the session start, plays at  *)
(* rate 1, 30 s behind the wall clock, at the live head, with the playback *)
(* loop registered                                                         *)
C22_Witness ==
  /\ lastEvent = "golive"
  /\ seekHold = NoTime
  /\ session # NoSession
  /\ currentReplayTime = now - GoLiveLagMs /\ replayTimeRef = currentReplayTime
  /\ currentReplayTime # sessionStartTime
  /\ playbackSpeed = 1 /\ isPlaying /\ isAtLiveHead
  /\ tickDue = now + updateIntervalMs

(* C23: each tick of the playback loop adds exactly 100 ms times the rate  *)
(* to the virtual time (state and ref): a step that runs n ticks at rate r *)
(* takes n * 100 ms of wall clock and adds n * 100 * r ms.  Nothing but a  *)
(* tick while playing, a seek, a go-live or a session's initialisation     *)
(* changes the virtual time: while paused it stays as it is.               *)
C23_TickAddsDeltaTimesRate ==
  [][ LET n == loopCounterRef' - loopCounterRef IN
        /\ (lastEvent' = "tick" /\ now' # now /\ replayTimeRef # NoTime)
             => /\ isPlaying /\ n >= 1
                /\ now' - now = n * updateIntervalMs
                /\ replayTimeRef' = replayTimeRef + n * updateIntervalMs * playbackSpeed
                /\ currentReplayTime' = replayTimeRef'
        /\ (replayTimeRef' # replayTimeRef \/ currentReplayTime' # currentReplayTime)
             => \/ lastEvent' = "tick" /\ now' # now /\ isPlaying
                \/ lastEvent' \in { "seek", "golive", "init" } /\ now' = now
    ]_vars

(* two ticks at rate 5 after the session loaded: the virtual time is the   *)
(* session start plus 2 * 100 * 5 ms                                       *)
C23_Witness ==
  /\ lastEvent = "tick"
  /\ isPlaying /\ playbackSpeed = 5
  /\ loopCounterRef = 2
  /\ now = NowBase + 2 * updateIntervalMs
  /\ replayTimeRef = sessionStartTime + 2 * updateIntervalMs * 5
  /\ currentReplayTime = replayTimeRef

(* C24: in every state with a loaded session (its times are set), the      *)
(* virtual time, state and ref, lies within the session window             *)
(* [sessionStartTime, sessionEndTime].                                     *)
C24_TimeWithinSessionWindow ==
  (session # NoSession /\ initPc \in { "grid", "done" })
    => /\ sessionStartTime <= currentReplayTime /\ currentReplayTime <= sessionEndTime
       /\ sessionStartTime <= replayTimeRef /\ replayTimeRef <= sessionEndTime

(* C25: a malformed record in a fetched batch is dropped without blocking  *)
(* its siblings.  When the response of a mounted location request arrives  *)
(* with a batch, every well-formed record of the batch that is not older   *)
(* than the eviction cutoff is in its driver's buffer afterwards, and the  *)
(* sort and the eviction have run: every buffer is in strictly increasing  *)
(* timestamp order and holds nothing at or before the cutoff.              *)
C25_MalformedRecordDropped ==
  [][ \A f \in locFetches \ locFetches' :
        \A batch \in LocBatches(f.nowMs) :
          (/\ lastEvent' = "locResponse" /\ f.isMounted
           /\ locationBuffer' = AfterLocBatch(locationBuffer, batch, f.nowMs))
            => /\ \A i \in DOMAIN batch :
                    (/\ batch[i].driver_number # NoDriver
                     /\ batch[i].date > f.nowMs - LocRetentionMs)
                      => Contains(locationBuffer'[batch[i].driver_number], batch[i].date)
               /\ \A dId \in Drivers :
                    /\ StrictlyIncreasing(locationBuffer'[dId])
                    /\ \A j \in DOMAIN locationBuffer'[dId] :
                         locationBuffer'[dId][j] > f.nowMs - LocRetentionMs
    ]_vars

(* C26: while a session is playing, the race-control poll fires: once a    *)
(* loaded session has played for the poll interval (5 s of wall clock)     *)
(* without a pause, fetchMsgs has run since it started playing, so that    *)
(* the messages up to the virtual time reach the feed, the track status,   *)
(* the DRS state and the retired drivers.                                  *)
C26_PollFiresWhilePlaying ==
  (playingSince # NoTime /\ now - playingSince >= PollIntervalMs)
    => (polledAt # NoTime /\ polledAt >= playingSince)

----------------------------------------------------------------------------
(* the sampled indexes of a reference lap: every SectorStride-th, from the *)
(* first                                                                   *)
Sampled(refs) == { i \in DOMAIN refs : (i - 1) % SectorStride = 0 }

(* i is the earliest of the sampled points of refs nearest to pos *)
EarliestNearest(refs, pos, i) ==
  /\ i \in Sampled(refs)
  /\ \A j \in Sampled(refs) :
       /\ ~FracLess(ManhattanDist(refs[j], pos), ManhattanDist(refs[i], pos))
       /\ j < i => FracLess(ManhattanDist(refs[i], pos), ManhattanDist(refs[j], pos))

(* C27: after an animation frame, when a driver is followed, has an        *)
(* interpolated position and reference points exist, the reported sector   *)
(* is the label of the earliest sampled reference point (every 5th, from   *)
(* the first) at the least Manhattan distance from that position; when no  *)
(* driver is followed the reported sector is null.                         *)
C27_SectorLookup ==
  returned.coords # NotCalled
    => /\ (argDriver # NoDriver /\ returned.coords # NoCoord /\ Len(argRefs) > 0)
            => \E i \in DOMAIN argRefs :
                 /\ EarliestNearest(argRefs, returned.coords, i)
                 /\ returned.sector = argRefs[i].sector
       /\ argDriver = NoDriver => returned.sector = NoSector

(* C27: a followed driver half way between two samples, a reference lap    *)
(* whose first and sixth points are equally near and carry different       *)
(* labels, and whose unsampled points lie on the driver: the first point's *)
(* label is reported                                                       *)
C27_Witness ==
  /\ argDriver # NoDriver
  /\ returned.coords = [x |-> Whole(200), y |-> Whole(75)]
  /\ Len(argRefs) = RefLapLen
  /\ argRefs[1] = [x |-> 300, y |-> -50, sector |-> 2]
  /\ argRefs[RefLapLen] = [x |-> 100, y |-> 200, sector |-> 1]
  /\ \A i \in 2..(RefLapLen - 1) : argRefs[i] = [x |-> 200, y |-> 75, sector |-> 3]
  /\ returned.sector = 2

(* C28: the window of virtual time requested on a fetch tick begins no     *)
(* later than the window requested on the fetch tick before it ended,      *)
(* whatever the playback rate: no span of virtual time between the two is  *)
(* left unrequested.                                                       *)
C28_WindowsLeaveNoGap ==
  [][ \A g \in appFetches' \ appFetches :
        (lastEvent' = "tick" /\ g.kind = "tick" /\ requestedAt # NoTime)
          => FetchFrom(g.time) <= FetchTo(requestedAt) ]_vars

(* C29: when the responses of a request cycle of the playback loop that    *)
(* was not aborted arrive, its (non-empty) weather response is applied if  *)
(* the cycle asked for the weather, however many ticks ran meanwhile, and  *)
(* the weather stays as it was if the cycle did not ask for it.            *)
C29_WeatherOfCycleApplied ==
  [][ \A f \in appFetches \ appFetches' :
        (lastEvent' = "response" /\ f.kind = "tick" /\ ~f.aborted)
          => /\ f.weather => weather' = f.time
             /\ ~f.weather => weather' = weather ]_vars

(* C30: when the location timer fires while the map is shown and the clock *)
(* plays at a time before the time of the last location request, as after  *)
(* a backward seek followed by play, fetchBatch issues a request for the   *)
(* clock time: fetching does not wait until the clock has passed the time  *)
(* of that request again.                                                  *)
C30_FetchResumesAfterSeek ==
  [][ (/\ lastEvent' = "locTimer"
       /\ Rendered(currentView, session, currentReplayTime)
       /\ mapTransform # NoSession
       /\ isPlaying
       /\ currentReplayTime < lastFetchTime)
        => \E f \in locFetches' \ locFetches : f.nowMs = currentReplayTime ]_vars

============================================================================
